---- MODULE Spec2Model ----
(***************************************************************************)
(* Verification model of the deepclaw voice bridge:                        *)
(*   - SessionTimers (app/services/session_timers.py) together with the    *)
(*     asyncio event loop's delayed-callback handles and the tasks the     *)
(*     handles spawn;                                                      *)
(*   - the request supersession tracker and streaming loop of the          *)
(*     text-completion proxy (app/routers/openclaw_proxy.py);              *)
(*   - the agent-to-telephony relay task (app/services/deepgram_agent.py). *)
(* Time is counted in abstract ticks; a configured duration of n means n   *)
(* ticks.                                                                  *)
(***************************************************************************)
EXTENDS Bags, FiniteSets, Integers, Naturals, Sequences, TLC

\* ------------------------------------------------------------------------
\* Bounds
\* ------------------------------------------------------------------------
\* largest configured timer duration, in ticks
MaxMs == 2
\* number of TimerHandle objects alive at once (referenced or still scheduled)
MaxHandles == 5
\* number of timer-fire tasks alive at once
MaxTasks == 2
\* number of callback invocations recorded in cb_calls
MaxCalls == 2
\* number of text-completion requests
MaxReqs == 3
\* number of chunks the gateway streams for one request
MaxChunks == 1
\* number of requests in flight at once
MaxActive == 2
\* number of agent messages the agent-to-telephony task receives
MaxMsgs == 3
\* number of JSON messages recorded in dg_sent after the Settings message
MaxSent == 3
\* number of transcript entries
MaxTranscript == 2
\* last reading of the clock
MaxNow == 5
\* number of call_later handles of the injector alive at once
MaxPending == 2
\* number of fragments a user text is put together from
MaxFragments == 3
\* number of bytes in a chunk of audio
MaxAudio == 3
\* number of calls at a time
MaxBridges == 2
\* number of text-completion requests while sessions are muted and unmuted
MaxMuteReqs == 2
\* the farewell grace sleep of the relay, in ticks
GRACE_SLEEP_S == 1

\* delay between the exit message and the hangup, in ticks
POST_EXIT_DELAY_S == 3

None == 0

\* Python's None where the other values are strings
Nil == "None"

HandleIds == 1..MaxHandles

VARIABLES
    config,             \* SessionTimers._config
    timers,             \* SessionTimers fields, the loop's handles, fire tasks
    cb_calls,           \* invocations of the inject_message / end_call callbacks
    idle_cleared,       \* history: on_agent_started_speaking handled, idle chain not re-armed since
    response_cleared,   \* history: on_agent_started_speaking handled, no on_user_spoke since
    idle_interrupted,   \* history: user speech handled while the current idle-prompt timer was pending
    idle_prompt_fired,  \* history: "fired" once _fire_idle_prompt ran, "audio_done" once
                        \* on_agent_audio_done() was called after it, "no" from the next
                        \* user-speech or agent-started-speaking call on ("untracked"
                        \* where a specification does not follow it)
    scenario            \* history: which API calls were made so far

timer_vars == <<config, timers, cb_calls, idle_cleared, response_cleared,
                idle_interrupted, idle_prompt_fired, scenario>>

VARIABLES
    settings,           \* Settings: FILLER_THRESHOLD_MS
    active_sessions,    \* session_registry._active_sessions
    inflight,           \* openclaw_proxy._inflight
    reqs                \* the proxy_chat_completions requests, in arrival order

proxy_vars == <<settings, active_sessions, inflight, reqs>>

VARIABLES
    bridge,             \* run_agent_bridge: where it is, and whether it made timers
    stop_event,         \* the relay tasks' shared asyncio.Event
    stop_set_at,        \* history: who first set stop_event, and from where
    d2t,                \* the _deepgram_to_twilio task
    t2d,                \* the _twilio_to_deepgram task
    dg_sent,            \* JSON messages sent on the agent connection
    transcript          \* the call's TranscriptEntry list

bridge_vars == <<bridge, stop_event, stop_set_at, d2t, t2d, dg_sent, transcript>>

VARIABLES
    injector,           \* one VoiceStatusInjector, with the handles it has on the loop
    now,                \* time.monotonic(), in ticks
    vs_log              \* history: the last phrase sent, the send before it, the last skip

injector_vars == <<injector, now, vs_log>>

VARIABLES
    unmute_call,             \* a user text put to should_unmute, and the answer
    media,              \* a media frame on its way through build, parse and extract
    registry_call       \* history: the last call of a registry function, and the
                        \* session its key had before the call

pure_vars == <<unmute_call, media, registry_call>>

VARIABLES
    calls               \* the runs of run_agent_bridge, one per call

vars == <<timer_vars, proxy_vars, bridge_vars, injector_vars, pure_vars, calls>>

\* ------------------------------------------------------------------------
\* asyncio loop: delayed-callback handles (loop.call_later) and tasks
\* ------------------------------------------------------------------------
FreeH == [st |-> "free", kind |-> "none", rem |-> 0, cur |-> FALSE]

HandleFields == {"response_reengage_handle", "response_exit_handle",
                 "idle_prompt_handle", "idle_exit_handle"}

FreeIds(s) == {h \in HandleIds : s.loop[h].st = "free"}

Pending(s, kind) == {h \in HandleIds : s.loop[h].st = "pending" /\ s.loop[h].kind = kind}

Referenced(s, h) == \E f \in HandleFields : s[f] = h

RECURSIVE SumOver(_, _)
SumOver(B, S) ==
    IF S = {} THEN 0
    ELSE LET x == CHOOSE y \in S : TRUE IN B[x] + SumOver(B, S \ {x})

\* the bag of F(t) for t in bag B
MapBag(B, F(_)) ==
    [u \in {F(t) : t \in DOMAIN B} |-> SumOver(B, {t \in DOMAIN B : F(t) = u})]

TaskKinds == {"response_reengage", "response_exit", "idle_prompt", "idle_exit"}

\* a running coroutine _fire_<kind>: where it is suspended, and the time left
\* of its sleep
Tasks == [kind : TaskKinds, pc : {"start", "inject", "sleep"},
          rem : 0..POST_EXIT_DELAY_S, cur : BOOLEAN]

Task(kind, pc, rem, cur) == [kind |-> kind, pc |-> pc, rem |-> rem, cur |-> cur]

NoTasks == EmptyBag

Running(s) == BagToSet(s.tasks)

NumTasks(s) == BagCardinality(s.tasks)

AddTask(s, t) == [s EXCEPT !.tasks = @ (+) SetToBag({t})]

DelTask(s, t) == [s EXCEPT !.tasks = @ (-) SetToBag({t})]

\* TimerHandle.cancel() followed by "self._x_handle = None".  Cancelling a
\* handle that already ran is a no-op; either way the object is dropped.
cancel(s, f) ==
    IF s[f] = None THEN s
    ELSE [s EXCEPT ![f] = None, !.loop[s[f]] = FreeH]

\* "self._x_handle = loop.call_later(delay, ...)": the field is overwritten
\* without cancelling the handle it held; a still-scheduled one stays in the
\* loop, unreferenced.
call_later(s, f, kind, delay, cur) ==
    LET old == s[f]
        s1 == IF old # None /\ s.loop[old].st = "fired"
              THEN [s EXCEPT !.loop[old] = FreeH] ELSE s
        h  == CHOOSE x \in FreeIds(s1) : \A y \in FreeIds(s1) : x <= y
    IN [s1 EXCEPT ![f] = h,
                  !.loop[h] = [st |-> "pending", kind |-> kind, rem |-> delay, cur |-> cur]]

\* ------------------------------------------------------------------------
\* SessionTimers
\* ------------------------------------------------------------------------
enabled == config.enabled

clear_response_timers(s) ==
    cancel(cancel(s, "response_reengage_handle"), "response_exit_handle")

clear_idle_timers(s) ==
    cancel(cancel(s, "idle_prompt_handle"), "idle_exit_handle")

Guarded_ignores_exiting == ~enabled \/ timers.paused

\* the test that opens every on_* method
Guarded == ~enabled \/ timers.exiting \/ timers.paused

on_user_spoke_swapped(s) ==
    LET s1 == [clear_idle_timers(clear_response_timers(s)) EXCEPT !.idle_prompted = FALSE]
        s2 == IF config.response_reengage_ms > 0
              THEN call_later(s1, "response_reengage_handle", "response_reengage",
                              config.response_exit_ms, FALSE)
              ELSE s1
    IN IF config.response_exit_ms > 0
       THEN call_later(s2, "response_exit_handle", "response_exit",
                       config.response_reengage_ms, FALSE)
       ELSE s2

\* on_user_spoke, past its guard
on_user_spoke(s) ==
    LET s1 == [clear_idle_timers(clear_response_timers(s)) EXCEPT !.idle_prompted = FALSE]
        s2 == IF config.response_reengage_ms > 0
              THEN call_later(s1, "response_reengage_handle", "response_reengage",
                              config.response_reengage_ms, FALSE)
              ELSE s1
    IN IF config.response_exit_ms > 0
       THEN call_later(s2, "response_exit_handle", "response_exit",
                       config.response_exit_ms, FALSE)
       ELSE s2

\* on_agent_started_speaking, past its guard
on_agent_started_speaking(s) ==
    [clear_idle_timers(clear_response_timers(s)) EXCEPT !.idle_prompted = FALSE]

on_user_started_speaking_keeps_idle(s) ==
    [s EXCEPT !.idle_prompted = FALSE]

\* on_user_started_speaking, past its guard
on_user_started_speaking(s) ==
    [clear_idle_timers(s) EXCEPT !.idle_prompted = FALSE]

\* every handle and task armed for an earlier idle period loses its "cur" mark
Age(s) ==
    LET f(t) == [t EXCEPT !.cur = FALSE]
    IN [s EXCEPT !.loop = [h \in HandleIds |-> f(s.loop[h])],
                 !.tasks = MapBag(s.tasks, f)]

\* on_agent_audio_done, past both guards
on_agent_audio_done(s) ==
    LET s1 == clear_idle_timers(s)
    IN IF config.idle_prompt_ms > 0
       THEN call_later(Age(s1), "idle_prompt_handle", "idle_prompt",
                       config.idle_prompt_ms, TRUE)
       ELSE s1

pause(s) == clear_idle_timers(clear_response_timers([s EXCEPT !.paused = TRUE]))

resume_stays_paused(s) == s

resume(s) == [s EXCEPT !.paused = FALSE]

clear_all(s) == clear_idle_timers(clear_response_timers([s EXCEPT !.exiting = TRUE]))

\* ------------------------------------------------------------------------
\* SessionTimers: the public methods as actions
\* ------------------------------------------------------------------------
\* the phases of a call whose caller never speaks: the agent is speaking, or
\* has finished and the caller is silent
SilentCaller == {"agent_speaking", "caller_silent"}

\* a call in which clear_all() has not been called yet, or has been
ClearAllCases == {"uncleared", "cleared"}

\* the calls that end an idle period
SpeechEvents == {"on_user_spoke", "on_user_started_speaking", "on_agent_started_speaking"}

Call(name) ==
    /\ scenario' =
        CASE scenario \in ClearAllCases ->
                 IF name = "clear_all" THEN "cleared" ELSE scenario
          [] scenario = "init" /\ name = "on_user_spoke" /\ ~Guarded -> "user_spoke_only"
          [] scenario = "agent_speaking" /\ name = "on_agent_audio_done" -> "caller_silent"
          [] scenario = "caller_silent" /\ name = "on_agent_started_speaking" -> "agent_speaking"
          [] OTHER -> "other"
    /\ idle_prompt_fired' =
        CASE idle_prompt_fired = "untracked" -> "untracked"
          [] name \in SpeechEvents -> "no"
          [] name = "on_agent_audio_done" /\ idle_prompt_fired # "no" -> "audio_done"
          [] OTHER -> idle_prompt_fired

OnUserSpoke ==
    /\ Call("on_user_spoke")
    /\ IF Guarded
       THEN UNCHANGED <<timers, idle_cleared, response_cleared, idle_interrupted>>
       ELSE /\ Cardinality(FreeIds(clear_idle_timers(clear_response_timers(timers)))) >= 2
            /\ timers' = on_user_spoke(timers)
            /\ response_cleared' = FALSE
            /\ idle_interrupted' =
                 (idle_interrupted \/ \E h \in Pending(timers, "idle_prompt") :
                                         timers.loop[h].cur)
            /\ UNCHANGED idle_cleared
    /\ UNCHANGED <<config, cb_calls>>

OnAgentStartedSpeaking ==
    /\ Call("on_agent_started_speaking")
    /\ IF Guarded
       THEN UNCHANGED <<timers, idle_cleared, response_cleared>>
       ELSE /\ timers' = on_agent_started_speaking(timers)
            /\ idle_cleared' = TRUE
            /\ response_cleared' = TRUE
    /\ UNCHANGED <<config, cb_calls, idle_interrupted>>

OnUserStartedSpeaking ==
    /\ Call("on_user_started_speaking")
    /\ IF Guarded
       THEN UNCHANGED <<timers, idle_interrupted>>
       ELSE /\ timers' = on_user_started_speaking(timers)
            /\ idle_interrupted' =
                 (idle_interrupted \/ \E h \in Pending(timers, "idle_prompt") :
                                         timers.loop[h].cur)
    /\ UNCHANGED <<config, cb_calls, idle_cleared, response_cleared>>

OnAgentAudioDone_without_idle_prompted_guard ==
    /\ Call("on_agent_audio_done")
    /\ IF Guarded
       THEN UNCHANGED <<timers, idle_cleared, idle_interrupted>>
       ELSE /\ Cardinality(FreeIds(clear_idle_timers(timers))) >= 1
            /\ timers' = on_agent_audio_done(timers)
            /\ IF config.idle_prompt_ms > 0
               THEN idle_cleared' = FALSE /\ idle_interrupted' = FALSE
               ELSE UNCHANGED <<idle_cleared, idle_interrupted>>
    /\ UNCHANGED <<config, cb_calls, response_cleared>>

OnAgentAudioDone ==
    /\ Call("on_agent_audio_done")
    /\ IF Guarded \/ timers.idle_prompted
       THEN UNCHANGED <<timers, idle_cleared, idle_interrupted>>
       ELSE /\ Cardinality(FreeIds(clear_idle_timers(timers))) >= 1
            /\ timers' = on_agent_audio_done(timers)
            /\ IF config.idle_prompt_ms > 0
               THEN idle_cleared' = FALSE /\ idle_interrupted' = FALSE
               ELSE UNCHANGED <<idle_cleared, idle_interrupted>>
    /\ UNCHANGED <<config, cb_calls, response_cleared>>

Pause ==
    /\ Call("pause")
    /\ timers' = pause(timers)
    /\ UNCHANGED <<config, cb_calls, idle_cleared, response_cleared, idle_interrupted>>

Resume ==
    /\ Call("resume")
    /\ timers' = resume(timers)
    /\ UNCHANGED <<config, cb_calls, idle_cleared, response_cleared, idle_interrupted>>

ClearAll ==
    /\ Call("clear_all")
    /\ timers' = clear_all(timers)
    /\ UNCHANGED <<config, cb_calls, idle_cleared, response_cleared, idle_interrupted>>

\* ------------------------------------------------------------------------
\* Timer firing: the loop runs a due handle, whose callback is
\* "lambda: asyncio.ensure_future(self._fire_x())"; the new task takes its
\* first step on a later loop iteration.
\* ------------------------------------------------------------------------
Message(kind) ==
    CASE kind = "response_reengage" -> config.response_reengage_message
      [] kind = "response_exit"     -> config.response_exit_message
      [] kind = "idle_prompt"       -> config.idle_prompt_message
      [] kind = "idle_exit"         -> config.idle_exit_message

CbCall(call, t) == [call |-> call, kind |-> t.kind, cur |-> t.cur]

\* the callback is recorded; a call with a silent caller can go on for ever,
\* and of its callbacks the last MaxCalls are kept
Log(call, t) ==
    cb_calls' = Append(IF scenario \in SilentCaller /\ Len(cb_calls) >= MaxCalls
                       THEN Tail(cb_calls) ELSE cb_calls,
                       CbCall(call, t))

TimerFires(h) ==
    /\ timers.loop[h].st = "pending"
    /\ timers.loop[h].rem = 0
    /\ NumTasks(timers) < MaxTasks
    /\ timers' = AddTask(
         [timers EXCEPT !.loop[h] = IF Referenced(timers, h)
                                    THEN [@ EXCEPT !.st = "fired"] ELSE FreeH],
         Task(timers.loop[h].kind, "start", 0, timers.loop[h].cur))
    /\ UNCHANGED <<config, cb_calls, idle_cleared, response_cleared,
                   idle_interrupted, idle_prompt_fired, scenario>>

\* the tail of _fire_idle_prompt: schedule the idle-exit callback
schedule_idle_exit(s, t) ==
    IF config.idle_exit_ms > 0
    THEN call_later(s, "idle_exit_handle", "idle_exit", config.idle_exit_ms, t.cur)
    ELSE s

\* _fire_response_reengage up to its await (or its return)
fire_response_reengage(t) ==
    IF timers.exiting \/ Message(t.kind) = ""
    THEN /\ timers' = DelTask(timers, t)
         /\ UNCHANGED cb_calls
    ELSE /\ Log("inject_message", t)
         /\ timers' = AddTask(DelTask(timers, t), [t EXCEPT !.pc = "inject"])

\* _fire_response_exit and _fire_idle_exit up to their first await
fire_exit(t) ==
    IF timers.exiting
    THEN /\ timers' = DelTask(timers, t)
         /\ UNCHANGED cb_calls
    ELSE LET s1 == clear_idle_timers(clear_response_timers(
                       [DelTask(timers, t) EXCEPT !.exiting = TRUE]))
         IN IF Message(t.kind) = ""
            THEN /\ timers' = AddTask(s1, [t EXCEPT !.pc = "sleep",
                                                    !.rem = config.post_exit_delay])
                 /\ UNCHANGED cb_calls
            ELSE /\ Log("inject_message", t)
                 /\ timers' = AddTask(s1, [t EXCEPT !.pc = "inject"])

\* _fire_idle_prompt up to its await (or to its end when there is no message)
fire_idle_prompt(t) ==
    IF timers.exiting
    THEN /\ timers' = DelTask(timers, t)
         /\ UNCHANGED cb_calls
    ELSE LET s1 == [DelTask(timers, t) EXCEPT !.idle_prompted = TRUE]
         IN IF Message(t.kind) = ""
            THEN /\ config.idle_exit_ms > 0 => FreeIds(s1) # {}
                 /\ timers' = schedule_idle_exit(s1, t)
                 /\ UNCHANGED cb_calls
            ELSE /\ Log("inject_message", t)
                 /\ timers' = AddTask(s1, [t EXCEPT !.pc = "inject"])

\* first step of a fire task
TaskStarts(t) ==
    /\ BagIn(t, timers.tasks)
    /\ t.pc = "start"
    /\ CASE t.kind = "response_reengage" -> fire_response_reengage(t)
         [] t.kind = "idle_prompt"       -> fire_idle_prompt(t)
         [] OTHER                        -> fire_exit(t)
    /\ idle_prompt_fired' =
         IF idle_prompt_fired # "untracked" /\ t.kind = "idle_prompt" /\ ~timers.exiting
         THEN "fired" ELSE idle_prompt_fired
    /\ UNCHANGED <<config, idle_cleared, response_cleared, idle_interrupted, scenario>>

InjectReturns_uncaught(t, ok) ==
    /\ BagIn(t, timers.tasks)
    /\ t.pc = "inject"
    /\ CASE t.kind = "response_reengage" ->
              timers' = DelTask(timers, t)
         [] t.kind = "idle_prompt" ->
              IF ok
              THEN /\ config.idle_exit_ms > 0 => FreeIds(timers) # {}
                   /\ timers' = schedule_idle_exit(DelTask(timers, t), t)
              ELSE timers' = DelTask(timers, t)
         [] OTHER ->
              timers' = IF ok
                        THEN AddTask(DelTask(timers, t),
                                     [t EXCEPT !.pc = "sleep", !.rem = config.post_exit_delay])
                        ELSE DelTask(timers, t)
    /\ UNCHANGED <<config, cb_calls, idle_cleared, response_cleared,
                   idle_interrupted, idle_prompt_fired, scenario>>

\* "await self._cb.inject_message(msg)" returns (ok) or raises (~ok)
InjectReturns(t, ok) ==
    /\ BagIn(t, timers.tasks)
    /\ t.pc = "inject"
    /\ CASE t.kind = "response_reengage" ->
              timers' = DelTask(timers, t)
         [] t.kind = "idle_prompt" ->
              IF ok
              THEN /\ config.idle_exit_ms > 0 => FreeIds(timers) # {}
                   /\ timers' = schedule_idle_exit(DelTask(timers, t), t)
              ELSE timers' = DelTask(timers, t)
         [] OTHER ->
              timers' = AddTask(DelTask(timers, t),
                                [t EXCEPT !.pc = "sleep", !.rem = config.post_exit_delay])
    /\ UNCHANGED <<config, cb_calls, idle_cleared, response_cleared,
                   idle_interrupted, idle_prompt_fired, scenario>>

\* the post-exit sleep is over: "await self._cb.end_call()"
SleepReturns(t) ==
    /\ BagIn(t, timers.tasks)
    /\ t.pc = "sleep"
    /\ t.rem = 0
    /\ Log("end_call", t)
    /\ timers' = DelTask(timers, t)
    /\ UNCHANGED <<config, idle_cleared, response_cleared, idle_interrupted, idle_prompt_fired, scenario>>

\* nothing is due and no task is ready to run
NothingDue(s) ==
    /\ \A h \in HandleIds : s.loop[h].st = "pending" => s.loop[h].rem > 0
    /\ \A t \in Running(s) : (t.pc = "sleep" => t.rem > 0) /\ t.pc # "start"

\* some handle or sleeping task is waiting for time to pass
Waiting(s) ==
    \/ \E h \in HandleIds : s.loop[h].st = "pending"
    \/ \E t \in Running(s) : t.pc = "sleep"

\* one tick passes for the handles and the sleeping tasks
Elapse(s) ==
    LET dec(x)  == IF x.rem > 0 THEN [x EXCEPT !.rem = @ - 1] ELSE x
        decT(t) == IF t.pc = "sleep" THEN dec(t) ELSE t
    IN [s EXCEPT !.loop = [h \in HandleIds |->
                             IF s.loop[h].st = "pending" THEN dec(s.loop[h])
                             ELSE s.loop[h]],
                 !.tasks = MapBag(s.tasks, decT)]

Tick ==
    /\ Waiting(timers)
    /\ NothingDue(timers)
    /\ timers' = Elapse(timers)
    /\ UNCHANGED <<config, cb_calls, idle_cleared, response_cleared,
                   idle_interrupted, idle_prompt_fired, scenario>>

\* ------------------------------------------------------------------------
\* SessionTimers specification
\* ------------------------------------------------------------------------
Durations == {0, 1, MaxMs}

TimerConfig(on, re, ex, ip, ie, msg) ==
    [enabled |-> on,
     response_reengage_ms |-> re, response_exit_ms |-> ex,
     idle_prompt_ms |-> ip, idle_exit_ms |-> ie,
     post_exit_delay |-> POST_EXIT_DELAY_S,
     response_reengage_message |-> msg, response_exit_message |-> msg,
     idle_prompt_message |-> msg, idle_exit_message |-> msg]

\* the test suite's shape (re-engage before exit, idle exit after the idle
\* prompt), the production shape (idle exit shorter than the idle prompt),
\* chains with a disabled (zero) duration, empty messages, timers disabled
Configs ==
    {TimerConfig(TRUE, 1, MaxMs, 1, MaxMs, "msg"),
     TimerConfig(TRUE, 1, MaxMs, MaxMs, 1, "msg"),
     TimerConfig(TRUE, MaxMs, 1, 1, 1, "msg"),
     TimerConfig(TRUE, 0, 1, 1, 0, "msg"),
     TimerConfig(TRUE, 1, 0, 0, 1, "msg"),
     TimerConfig(TRUE, 1, MaxMs, 1, MaxMs, ""),
     TimerConfig(FALSE, 1, MaxMs, 1, MaxMs, "msg")}

\* SessionTimers.__init__
NewTimers ==
    [response_reengage_handle |-> None, response_exit_handle |-> None,
     idle_prompt_handle |-> None, idle_exit_handle |-> None,
     idle_prompted |-> FALSE, exiting |-> FALSE, paused |-> FALSE,
     loop |-> [h \in HandleIds |-> FreeH],
     tasks |-> NoTasks]

TimersNext ==
    \/ OnUserSpoke /\ UNCHANGED <<proxy_vars, bridge_vars, injector_vars, pure_vars, calls>>
    \/ OnAgentStartedSpeaking /\ UNCHANGED <<proxy_vars, bridge_vars, injector_vars, pure_vars, calls>>
    \/ OnUserStartedSpeaking /\ UNCHANGED <<proxy_vars, bridge_vars, injector_vars, pure_vars, calls>>
    \/ OnAgentAudioDone /\ UNCHANGED <<proxy_vars, bridge_vars, injector_vars, pure_vars, calls>>
    \/ Pause /\ UNCHANGED <<proxy_vars, bridge_vars, injector_vars, pure_vars, calls>>
    \/ Resume /\ UNCHANGED <<proxy_vars, bridge_vars, injector_vars, pure_vars, calls>>
    \/ ClearAll /\ UNCHANGED <<proxy_vars, bridge_vars, injector_vars, pure_vars, calls>>
    \/ (\E h \in HandleIds : TimerFires(h)) /\ UNCHANGED <<proxy_vars, bridge_vars, injector_vars, pure_vars, calls>>
    \/ (\E t \in Tasks : TaskStarts(t)) /\ Len(cb_calls') <= MaxCalls
          /\ UNCHANGED <<proxy_vars, bridge_vars, injector_vars, pure_vars, calls>>
    \/ (\E t \in Tasks, ok \in BOOLEAN : InjectReturns(t, ok)) /\ UNCHANGED <<proxy_vars, bridge_vars, injector_vars, pure_vars, calls>>
    \/ (\E t \in Tasks : SleepReturns(t)) /\ Len(cb_calls') <= MaxCalls
          /\ UNCHANGED <<proxy_vars, bridge_vars, injector_vars, pure_vars, calls>>
    \/ Tick /\ UNCHANGED <<proxy_vars, bridge_vars, injector_vars, pure_vars, calls>>

\* every setting of the response chain, with any timers of the idle chain
ResponseConfigs ==
    {TimerConfig(on, re, ex, 1, 1, msg) :
        on \in BOOLEAN, re \in Durations, ex \in Durations, msg \in {"", "msg"}}

\* on_user_spoke() is called once and no other public method is called
ResponseNext ==
    \/ scenario = "init" /\ OnUserSpoke /\ UNCHANGED <<proxy_vars, bridge_vars, injector_vars, pure_vars, calls>>
    \/ (\E h \in HandleIds : TimerFires(h)) /\ UNCHANGED <<proxy_vars, bridge_vars, injector_vars, pure_vars, calls>>
    \/ (\E t \in Tasks : TaskStarts(t)) /\ UNCHANGED <<proxy_vars, bridge_vars, injector_vars, pure_vars, calls>>
    \/ (\E t \in Tasks, ok \in BOOLEAN : InjectReturns(t, ok)) /\ UNCHANGED <<proxy_vars, bridge_vars, injector_vars, pure_vars, calls>>
    \/ (\E t \in Tasks : SleepReturns(t)) /\ UNCHANGED <<proxy_vars, bridge_vars, injector_vars, pure_vars, calls>>
    \/ Tick /\ UNCHANGED <<proxy_vars, bridge_vars, injector_vars, pure_vars, calls>>

\* settings with both exit chains armed, with and without messages
LiveConfigs ==
    {TimerConfig(TRUE, 0, 1, 1, 1, msg) : msg \in {"", "msg"}}

\* the event loop's own steps: due timers run, tasks take their steps, awaited
\* sends return or raise, and time passes
LoopStep ==
    \/ \E h \in HandleIds : TimerFires(h)
    \/ \E t \in Tasks : TaskStarts(t)
    \/ \E t \in Tasks, ok \in BOOLEAN : InjectReturns(t, ok)
    \/ \E t \in Tasks : SleepReturns(t)
    \/ Tick

\* SessionTimers driven by any public calls; the relay stops delivering on_*
\* events once MaxCalls callbacks have been invoked, and the loop's own steps
\* are never held back
LiveNext ==
    \/ Len(cb_calls) < MaxCalls /\ OnUserSpoke /\ UNCHANGED <<proxy_vars, bridge_vars, injector_vars, pure_vars, calls>>
    \/ Len(cb_calls) < MaxCalls /\ OnAgentStartedSpeaking /\ UNCHANGED <<proxy_vars, bridge_vars, injector_vars, pure_vars, calls>>
    \/ Len(cb_calls) < MaxCalls /\ OnUserStartedSpeaking /\ UNCHANGED <<proxy_vars, bridge_vars, injector_vars, pure_vars, calls>>
    \/ Len(cb_calls) < MaxCalls /\ OnAgentAudioDone /\ UNCHANGED <<proxy_vars, bridge_vars, injector_vars, pure_vars, calls>>
    \/ Pause /\ UNCHANGED <<proxy_vars, bridge_vars, injector_vars, pure_vars, calls>>
    \/ Resume /\ UNCHANGED <<proxy_vars, bridge_vars, injector_vars, pure_vars, calls>>
    \/ ClearAll /\ UNCHANGED <<proxy_vars, bridge_vars, injector_vars, pure_vars, calls>>
    \/ (\E h \in HandleIds : TimerFires(h)) /\ UNCHANGED <<proxy_vars, bridge_vars, injector_vars, pure_vars, calls>>
    \/ (\E t \in Tasks : TaskStarts(t)) /\ UNCHANGED <<proxy_vars, bridge_vars, injector_vars, pure_vars, calls>>
    \/ (\E t \in Tasks, ok \in BOOLEAN : InjectReturns(t, ok)) /\ UNCHANGED <<proxy_vars, bridge_vars, injector_vars, pure_vars, calls>>
    \/ (\E t \in Tasks : SleepReturns(t)) /\ UNCHANGED <<proxy_vars, bridge_vars, injector_vars, pure_vars, calls>>
    \/ Tick /\ UNCHANGED <<proxy_vars, bridge_vars, injector_vars, pure_vars, calls>>


\* ------------------------------------------------------------------------
\* Session registry (app/services/session_registry.py)
\* ------------------------------------------------------------------------
Keys == {"agent:main:call"}

Conns == {"dg_ws"}

SessionData(ws, agent_name) ==
    [ws |-> ws, muted |-> FALSE, agent_name |-> agent_name, timers |-> Nil, injector |-> Nil]

\* register(session_key, dg_ws, agent_name)
register_as_updating(sessions, session_key, dg_ws, agent_name) ==
    IF session_key \in DOMAIN sessions
    THEN [sessions EXCEPT ![session_key].ws = dg_ws, ![session_key].agent_name = agent_name]
    ELSE [k \in DOMAIN sessions \cup {session_key} |->
            IF k = session_key THEN SessionData(dg_ws, agent_name) ELSE sessions[k]]

register_as(sessions, session_key, dg_ws, agent_name) ==
    [k \in DOMAIN sessions \cup {session_key} |->
        IF k = session_key THEN SessionData(dg_ws, agent_name) ELSE sessions[k]]

\* agent_name None; should_unmute tests only the truth of agent_name, and the
\* empty name is as false as None
NoName == <<>>

\* register(session_key, dg_ws): agent_name defaults to None
register(sessions, session_key, dg_ws) ==
    register_as(sessions, session_key, dg_ws, NoName)

unregister(sessions, session_key) ==
    [k \in DOMAIN sessions \ {session_key} |-> sessions[k]]

get_ws(sessions, session_key) ==
    IF session_key \in DOMAIN sessions THEN sessions[session_key].ws ELSE Nil

set_timers(sessions, session_key, v) ==
    IF session_key \in DOMAIN sessions
    THEN [sessions EXCEPT ![session_key].timers = v]
    ELSE sessions

set_injector(sessions, session_key, v) ==
    IF session_key \in DOMAIN sessions
    THEN [sessions EXCEPT ![session_key].injector = v]
    ELSE sessions

is_muted(sessions, session_key) ==
    IF session_key \in DOMAIN sessions THEN sessions[session_key].muted ELSE FALSE

set_muted(sessions, session_key, muted) ==
    IF session_key \in DOMAIN sessions
    THEN [sessions EXCEPT ![session_key].muted = muted]
    ELSE sessions

\* The registry's functions called in any order, as its tests call them, on
\* two keys and with two connections
RegistryKeys == {"agent:main:call", "agent:main:other"}

RegistryConns == {"dg_ws", "other_dg_ws"}

NoRegistryCall ==
    [op |-> "none", key |-> Nil, registered |-> FALSE, before |-> SessionData(Nil, NoName)]

RegistryCall(op, session_key) ==
    [op |-> op, key |-> session_key,
     registered |-> session_key \in DOMAIN active_sessions,
     before |-> IF session_key \in DOMAIN active_sessions
                THEN active_sessions[session_key] ELSE SessionData(Nil, NoName)]

Register(session_key, dg_ws, agent_name) ==
    /\ active_sessions' = register_as(active_sessions, session_key, dg_ws, agent_name)
    /\ registry_call' = RegistryCall("register", session_key)

Unregister(session_key) ==
    /\ active_sessions' = unregister(active_sessions, session_key)
    /\ registry_call' = RegistryCall("unregister", session_key)

SetMuted(session_key, muted) ==
    /\ active_sessions' = set_muted(active_sessions, session_key, muted)
    /\ registry_call' = RegistryCall("set_muted", session_key)

SetTimers(session_key, v) ==
    /\ active_sessions' = set_timers(active_sessions, session_key, v)
    /\ registry_call' = RegistryCall("set_timers", session_key)

SetInjector(session_key, v) ==
    /\ active_sessions' = set_injector(active_sessions, session_key, v)
    /\ registry_call' = RegistryCall("set_injector", session_key)

RegistryFrame ==
    UNCHANGED <<timer_vars, settings, inflight, reqs, bridge_vars, injector_vars,
                unmute_call, media, calls>>

RegistryNext ==
    \/ (\E k \in RegistryKeys, ws \in RegistryConns, n \in {<<>>, <<"W", "r", "e", "n">>} :
            Register(k, ws, n)) /\ RegistryFrame
    \/ (\E k \in RegistryKeys : Unregister(k)) /\ RegistryFrame
    \/ (\E k \in RegistryKeys, m \in BOOLEAN : SetMuted(k, m)) /\ RegistryFrame
    \/ (\E k \in RegistryKeys : SetTimers(k, "timers")) /\ RegistryFrame
    \/ (\E k \in RegistryKeys : SetInjector(k, "injector")) /\ RegistryFrame

\* A text is a sequence of characters.
UpperCase ==
    <<"A", "B", "C", "D", "E", "F", "G", "H", "I", "J", "K", "L", "M",
       "N", "O", "P", "Q", "R", "S", "T", "U", "V", "W", "X", "Y", "Z">>

LowerCase ==
    <<"a", "b", "c", "d", "e", "f", "g", "h", "i", "j", "k", "l", "m",
       "n", "o", "p", "q", "r", "s", "t", "u", "v", "w", "x", "y", "z">>

Digits == {"0", "1", "2", "3", "4", "5", "6", "7", "8", "9"}

Range(f) == {f[i] : i \in DOMAIN f}

\* str.lower(), one character
lower_char(c) ==
    IF c \in Range(UpperCase)
    THEN LowerCase[CHOOSE i \in DOMAIN UpperCase : UpperCase[i] = c]
    ELSE c

\* str.lower()
lower(text) == [i \in DOMAIN text |-> lower_char(text[i])]

\* the characters the pattern \w matches
IsWordChar(c) == c \in Range(UpperCase) \cup Range(LowerCase) \cup Digits \cup {"_"}

\* the pattern \b at position p of text (between text[p] and text[p+1])
word_boundary(text, p) ==
    LET before == p >= 1 /\ IsWordChar(text[p])
        after == p < Len(text) /\ IsWordChar(text[p + 1])
    IN before # after

\* needle occurs in text right after position p
occurs_at(needle, text, p) ==
    /\ p + Len(needle) <= Len(text)
    /\ \A j \in 1..Len(needle) : text[p + j] = needle[j]

\* keyword in text
contains(text, needle) == \E p \in 0..Len(text) : occurs_at(needle, text, p)

\* re.search(r"\b" + re.escape(name) + r"\b", text)
search_whole_word(name, text) ==
    \E p \in 0..Len(text) :
        /\ word_boundary(text, p)
        /\ occurs_at(name, text, p)
        /\ word_boundary(text, p + Len(name))

\* _UNMUTE_KEYWORDS
UNMUTE_KEYWORDS ==
    << <<"u", "n", "m", "u", "t", "e">>,
       <<"y", "o", "u", " ", "c", "a", "n", " ", "t", "a", "l", "k">>,
       <<"s", "t", "a", "r", "t", " ", "t", "a", "l", "k", "i", "n", "g">>,
       <<"i", " ", "n", "e", "e", "d", " ", "y", "o", "u">> >>

should_unmute_substring(sessions, session_key, user_text) ==
    /\ session_key \in DOMAIN sessions
    /\ LET session == sessions[session_key]
           text_lower == lower(user_text)
       IN \/ /\ session.agent_name # NoName
             /\ contains(text_lower, lower(session.agent_name))
          \/ \E i \in DOMAIN UNMUTE_KEYWORDS : contains(text_lower, UNMUTE_KEYWORDS[i])

should_unmute(sessions, session_key, user_text) ==
    /\ session_key \in DOMAIN sessions
    /\ LET session == sessions[session_key]
           text_lower == lower(user_text)
       IN \/ /\ session.agent_name # NoName
             /\ search_whole_word(lower(session.agent_name), text_lower)
          \/ \E i \in DOMAIN UNMUTE_KEYWORDS : contains(text_lower, UNMUTE_KEYWORDS[i])

\* The user texts the proxy sees: one that contains an unmute keyword, one
\* that names an agent, one that does neither.
UserMessages == {"unmute", "hey wren", "what time is it"}

\* the characters of a user text
UserText(m) ==
    CASE m = "unmute" -> <<"u", "n", "m", "u", "t", "e">>
      [] m = "hey wren" -> <<"h", "e", "y", " ", "w", "r", "e", "n">>
      [] OTHER -> <<"w", "h", "a", "t", " ", "t", "i", "m", "e", " ", "i", "s", " ", "i", "t">>

\* ------------------------------------------------------------------------
\* Text-completion proxy (app/routers/openclaw_proxy.py)
\* ------------------------------------------------------------------------
\* the requests of the longest run of arrivals that is followed
MaxArrivals == MaxReqs + 1

ReqIds == 1..MaxReqs

\* _InflightEntry: cancel is the asyncio.Event of the request that registered
\* the entry, named by that request's index in reqs
InflightEntry(seq, r) == [seq |-> seq, cancel |-> r]

next_seq_same(old) == old.seq

\* the sequence number of a new entry, given the entry it supersedes
next_seq(old) == old.seq + 1

\* "Request superseding": the new _inflight map, the requests after
\* old.cancel.set(), and my_seq, for request r on a key with a live connection
supersede(session_key, r) ==
    IF session_key \in DOMAIN inflight
    THEN LET old == inflight[session_key]
         IN [my_seq   |-> next_seq(old),
             reqs     |-> [reqs EXCEPT ![old.cancel].cancel_event = "set"],
             inflight |-> [inflight EXCEPT ![session_key] = InflightEntry(next_seq(old), r)]]
    ELSE [my_seq   |-> 1,
          reqs     |-> reqs,
          inflight |-> [k \in DOMAIN inflight \cup {session_key} |->
                          IF k = session_key THEN InflightEntry(1, r) ELSE inflight[k]]]

\* _cancel_pending
cancel_pending(v) ==
    IF v.pending_inject # None
    THEN [v EXCEPT !.loop = {h \in @ : h.id # v.pending_inject},
                   !.pending_inject = None]
    ELSE v

\* VoiceStatusInjector.reset(), at time t
reset(v, t) ==
    cancel_pending([v EXCEPT !.content_streaming = FALSE, !.request_started_at = t])

\* variant: the injector is reset before the mute check, on every request
resets_injector_before_mute_check(sessions, session_key, noop) ==
    /\ session_key \in DOMAIN sessions
    /\ sessions[session_key].injector # Nil

\* the proxy resets the session's injector for a new turn: past the mute
\* check, `if session and session.injector`
resets_injector(sessions, session_key, noop) ==
    /\ ~noop
    /\ session_key \in DOMAIN sessions
    /\ sessions[session_key].injector # Nil

\* "muted" is the handler's local of that name, dead after its first await
NewReq(session_key, dg_ws) ==
    [pc |-> "send", session_key |-> session_key, dg_ws |-> dg_ws,
     muted |-> FALSE, my_seq |-> None, cancel_event |-> "none",
     content_started |-> FALSE, filler_task |-> "none", forwarded |-> 0,
     outcome |-> "none"]

\* proxy_chat_completions from the request body to "await client.send":
\* mute check, supersession, filler arming.  No await in between.
Arrive(session_key, user_message, skip_filler) ==
    LET r      == Len(reqs) + 1
        dg_ws  == IF session_key # Nil THEN get_ws(active_sessions, session_key) ELSE Nil
        muted  == IF session_key # Nil THEN is_muted(active_sessions, session_key) ELSE FALSE
        unmute == user_message # Nil
                  /\ should_unmute(active_sessions, session_key, UserText(user_message))
        noop   == session_key # Nil /\ muted /\ ~unmute
    IN /\ r <= MaxArrivals
       /\ Cardinality({i \in 1..Len(reqs) : reqs[i].pc # "done"}) < MaxActive
       /\ user_message = Nil => ~skip_filler
       /\ injector' = IF resets_injector(active_sessions, session_key, noop)
                      THEN reset(injector, now) ELSE injector
       \* `if session and session.timers: session.timers.resume()`
       /\ IF session_key # Nil /\ muted /\ unmute
             /\ active_sessions[session_key].timers # Nil
          THEN Resume
          ELSE UNCHANGED timer_vars
       /\ IF noop
          THEN \* _muted_noop_response
               /\ reqs' = Append(reqs, [NewReq(session_key, dg_ws) EXCEPT
                                          !.pc = "done", !.outcome = "muted_noop"])
               /\ UNCHANGED <<active_sessions, inflight>>
          ELSE LET sup   == IF session_key # Nil /\ dg_ws # Nil
                            THEN supersede(session_key, r)
                            ELSE [my_seq |-> None, reqs |-> reqs, inflight |-> inflight]
                   armed == dg_ws # Nil /\ settings.FILLER_THRESHOLD_MS > 0 /\ ~skip_filler
               IN /\ active_sessions' =
                       IF session_key # Nil /\ muted
                       THEN set_muted(active_sessions, session_key, FALSE)
                       ELSE active_sessions
                  /\ inflight' = sup.inflight
                  /\ reqs' = Append(sup.reqs,
                       [NewReq(session_key, dg_ws) EXCEPT
                          !.muted = muted,
                          !.my_seq = sup.my_seq,
                          !.cancel_event = IF sup.my_seq # None THEN "clear" ELSE "none",
                          !.filler_task = IF armed THEN "armed" ELSE "none"])
       /\ UNCHANGED settings

finish_leaving_filler(r, outcome) ==
    LET q == reqs[r]
        k == q.session_key
    IN /\ reqs' = [reqs EXCEPT ![r].pc = "done", ![r].outcome = outcome,
                               ![r].muted = FALSE,
                               ![r].content_started = FALSE, ![r].forwarded = 0,
                               ![r].cancel_event = "none"]
       /\ inflight' =
            IF k # Nil /\ q.my_seq # None /\ k \in DOMAIN inflight
               /\ inflight[k].seq = q.my_seq
            THEN [x \in DOMAIN inflight \ {k} |-> inflight[x]]
            ELSE inflight

\* the "finally" of stream_body: cancel the filler, release the entry.  The
\* generator's locals, the filler task and the request's Event are dropped.
finish(r, outcome) ==
    LET q == reqs[r]
        k == q.session_key
    IN /\ reqs' = [reqs EXCEPT ![r].pc = "done", ![r].outcome = outcome,
                               ![r].muted = FALSE,
                               ![r].content_started = FALSE, ![r].forwarded = 0,
                               ![r].filler_task = "none", ![r].cancel_event = "none"]
       /\ inflight' =
            IF k # Nil /\ q.my_seq # None /\ k \in DOMAIN inflight
               /\ inflight[k].seq = q.my_seq
            THEN [x \in DOMAIN inflight \ {k} |-> inflight[x]]
            ELSE inflight

superseded_any(q) == q.cancel_event = "set"

\* the superseded-request check at the top of the streaming loop
superseded(q) == q.cancel_event = "set" /\ ~q.content_started

\* "resp = await client.send(req, stream=True)" returns or raises
SendReturns(r, ok) ==
    /\ r \in 1..Len(reqs)
    /\ reqs[r].pc = "send"
    /\ reqs' = IF ok THEN [reqs EXCEPT ![r].pc = "stream", ![r].muted = FALSE]
               ELSE [reqs EXCEPT ![r].pc = "done", ![r].outcome = "error",
                                 ![r].muted = FALSE]
    /\ UNCHANGED <<settings, active_sessions, inflight>>

\* one iteration of "async for chunk in _filtered_stream(...)"
Chunk(r, has_content) ==
    /\ r \in 1..Len(reqs)
    /\ reqs[r].pc = "stream"
    /\ IF superseded(reqs[r])
       THEN finish(r, "superseded")
       ELSE /\ reqs[r].forwarded < MaxChunks
            /\ reqs' = [reqs EXCEPT
                          ![r].forwarded = @ + 1,
                          ![r].content_started = @ \/ has_content,
                          ![r].filler_task = IF has_content /\ @ = "armed"
                                             THEN "ended" ELSE @]
            /\ UNCHANGED inflight
    /\ UNCHANGED <<settings, active_sessions>>

\* the gateway's stream ends
StreamEnds(r) ==
    /\ r \in 1..Len(reqs)
    /\ reqs[r].pc = "stream"
    /\ finish(r, "ended")
    /\ UNCHANGED <<settings, active_sessions>>

\* the caller closes the response while the generator is suspended at a yield
ClientCloses(r) ==
    /\ r \in 1..Len(reqs)
    /\ reqs[r].pc = "stream"
    /\ reqs[r].forwarded > 0
    /\ finish(r, "ended")
    /\ UNCHANGED <<settings, active_sessions>>

\* _inject_filler past its sleeps: a phrase is injected, or none is available
FillerRuns(r, has_phrase) ==
    /\ r \in 1..Len(reqs)
    /\ reqs[r].filler_task = "armed"
    /\ reqs' = [reqs EXCEPT ![r].filler_task = IF has_phrase THEN "injected" ELSE "ended"]
    /\ UNCHANGED <<settings, active_sessions, inflight>>

\* run_agent_bridge registers the session of a new call
SessionRegistered(k, ws) ==
    /\ k \notin DOMAIN active_sessions
    /\ active_sessions' = register(active_sessions, k, ws)
    /\ UNCHANGED <<settings, inflight, reqs>>

\* run_agent_bridge unregisters the session at teardown
SessionUnregistered(k) ==
    /\ k \in DOMAIN active_sessions
    /\ active_sessions' = unregister(active_sessions, k)
    /\ UNCHANGED <<settings, inflight, reqs>>

\* The session is muted: set_muted(session_key, True), and the session's
\* timers, when it has some, are paused ("Pause all timers (used during
\* mute)"), as the unmute path of the proxy resumes them.
SessionMuted(k) ==
    /\ k \in DOMAIN active_sessions
    /\ ~active_sessions[k].muted
    /\ active_sessions' = set_muted(active_sessions, k, TRUE)
    /\ IF active_sessions[k].timers # Nil THEN Pause ELSE UNCHANGED timer_vars
    /\ UNCHANGED <<settings, inflight, reqs>>

\* the call's timers are stored with set_timers(session_key, timers)
SessionTimersSet(k) ==
    /\ k \in DOMAIN active_sessions
    /\ active_sessions[k].timers = Nil
    /\ active_sessions' = set_timers(active_sessions, k, "timers")
    /\ UNCHANGED <<settings, inflight, reqs>>

\* the call's status injector is stored with set_injector(session_key, injector)
SessionInjectorSet(k) ==
    /\ k \in DOMAIN active_sessions
    /\ active_sessions[k].injector = Nil
    /\ active_sessions' = set_injector(active_sessions, k, "injector")
    /\ UNCHANGED <<settings, inflight, reqs>>

ProxyNext ==
    \/ (\E k \in Keys, m \in UserMessages \cup {Nil}, sf \in BOOLEAN :
            Len(reqs) < MaxReqs /\ Arrive(k, m, sf))
          /\ UNCHANGED <<bridge_vars, now, vs_log, pure_vars, calls>>
    \/ (\E r \in ReqIds, ok \in BOOLEAN : SendReturns(r, ok)) /\ UNCHANGED <<timer_vars, bridge_vars, injector_vars, pure_vars, calls>>
    \/ (\E r \in ReqIds, c \in BOOLEAN : Chunk(r, c)) /\ UNCHANGED <<timer_vars, bridge_vars, injector_vars, pure_vars, calls>>
    \/ (\E r \in ReqIds : StreamEnds(r)) /\ UNCHANGED <<timer_vars, bridge_vars, injector_vars, pure_vars, calls>>
    \/ (\E r \in ReqIds : ClientCloses(r)) /\ UNCHANGED <<timer_vars, bridge_vars, injector_vars, pure_vars, calls>>
    \/ (\E r \in ReqIds, p \in BOOLEAN : FillerRuns(r, p)) /\ UNCHANGED <<timer_vars, bridge_vars, injector_vars, pure_vars, calls>>
    \/ (\E k \in Keys, ws \in Conns : SessionRegistered(k, ws)) /\ UNCHANGED <<timer_vars, bridge_vars, injector_vars, pure_vars, calls>>
    \/ (\E k \in Keys : SessionUnregistered(k)) /\ UNCHANGED <<timer_vars, bridge_vars, injector_vars, pure_vars, calls>>

\* ------------------------------------------------------------------------
\* Audio relay of one call (app/services/deepgram_agent.py)
\* ------------------------------------------------------------------------
\* A message read from the agent connection.  Binary frames and text that is
\* not JSON are message types of their own.
AgentMsg(type, role, content, function_name, function_call_id, farewell) ==
    [type |-> type, role |-> role, content |-> content,
     function_name |-> function_name, function_call_id |-> function_call_id,
     farewell |-> farewell]

AgentMsgs ==
    {AgentMsg(t, Nil, Nil, Nil, Nil, Nil) :
        t \in {"bytes", "bad_json", "Error", "Warning", "Unknown",
               "UserStartedSpeaking", "AgentStartedSpeaking", "AgentAudioDone"}}
    \cup {AgentMsg("ConversationText", r, c, Nil, Nil, Nil) :
            r \in {"user", "assistant", "system"}, c \in {"", "text"}}
    \cup {AgentMsg("FunctionCallRequest", Nil, Nil, f, i, w) :
            f \in {"end_call", "transfer"}, i \in {"fc1", "fc2"},
            w \in {Nil, "Bye now"}}

NoMsg == AgentMsg(Nil, Nil, Nil, Nil, Nil, Nil)

\* fn_input.get("farewell", "Goodbye!")
farewell_of(msg) == IF msg.farewell = Nil THEN "Goodbye!" ELSE msg.farewell

\* a JSON message sent on the agent connection, and the task that sent it
Sent(type, function_call_id, output, message, by) ==
    [type |-> type, function_call_id |-> function_call_id, output |-> output,
     message |-> message, by |-> by]

FunctionCallResponse(fn_call_id) ==
    Sent("FunctionCallResponse", fn_call_id, "{\"ok\": true}", Nil, "d2t")

InjectAgentMessage(message, by) ==
    Sent("InjectAgentMessage", Nil, Nil, message, by)

TranscriptEntry_tagging_assistant(role, content) ==
    [speaker |-> IF role = "assistant" THEN "bot" ELSE "user", text |-> content]

\* TranscriptEntry(timestamp=time.time(), speaker=speaker, text=content)
TranscriptEntry(role, content) ==
    [speaker |-> IF role = "user" THEN "user" ELSE "bot", text |-> content]

\* "dropped" tells that the task returned on a message it did not look at,
\* "closed" that it found the agent connection closed; "utterance" is a
\* history of the agent's speech as the task's messages report it and
\* "skipped" tells whether a message of no use to the relay was handled
NewD2T ==
    [pc |-> "recv", end_call_farewell_pending |-> FALSE, msg |-> NoMsg,
     rem |-> 0, n |-> 0, mark |-> 0, dropped |-> FALSE, closed |-> FALSE,
     utterance |-> "untracked", skipped |-> "untracked"]

\* The locals of one run_agent_bridge coroutine.  "bound" tells whether the
\* locals stop_event and transcript have been assigned, "exc" whether an
\* exception is propagating through the finally block, "closed" whether
\* dg_ws.close() has been awaited, and "post" lists the post-call
\* collaborators in the order they were invoked.
NoBridge ==
    [pc |-> "idle", timers |-> Nil, prompt_override |-> FALSE,
     SESSION_TIMER_ENABLED |-> FALSE, POST_CALL_EXTRACTION |-> FALSE,
     session_key |-> Nil, bound |-> FALSE, exc |-> FALSE, closed |-> FALSE,
     post |-> <<>>]

\* f"agent:{settings.OPENCLAW_AGENT_ID}:{call_id}" of the call
BridgeKey == CHOOSE k \in Keys : TRUE

\* json.dumps(build_settings_config(...)) as sent by run_agent_bridge
SettingsMsg == Sent("Settings", Nil, Nil, Nil, "bridge")

\* the relay tasks before asyncio.create_task
NoD2T == [NewD2T EXCEPT !.pc = "none"]

NoT2D == [pc |-> "none"]

\* variant: a failed connect falls into the teardown of an opened connection
ConnectRaisesIntoFinally ==
    /\ bridge.pc = "connecting"
    /\ bridge' = [bridge EXCEPT !.pc = "closing"]
    /\ UNCHANGED <<timer_vars, active_sessions, stop_event, stop_set_at, d2t, t2d,
                   dg_sent, transcript>>

\* `await connect(...)` raises: log and return
ConnectRaises ==
    /\ bridge.pc = "connecting"
    /\ bridge' = [bridge EXCEPT !.pc = "returned"]
    /\ UNCHANGED <<timer_vars, active_sessions, stop_event, stop_set_at, d2t, t2d,
                   dg_sent, transcript>>

\* variant: the session is registered before the Settings message is sent
ConnectReturns_registering ==
    /\ bridge.pc = "connecting"
    /\ bridge' = [bridge EXCEPT !.pc = "settings", !.session_key = BridgeKey]
    /\ active_sessions' = register(active_sessions, BridgeKey, "dg_ws")
    /\ UNCHANGED <<timer_vars, stop_event, stop_set_at, d2t, t2d, dg_sent, transcript>>

\* `await connect(...)` returns; session_key is built and the Settings
\* message is handed to dg_ws.send
ConnectReturns ==
    /\ bridge.pc = "connecting"
    /\ bridge' = [bridge EXCEPT !.pc = "settings", !.session_key = BridgeKey]
    /\ UNCHANGED <<timer_vars, active_sessions, stop_event, stop_set_at, d2t, t2d,
                   dg_sent, transcript>>

\* the finally block up to `await dg_ws.close()`
finally_to_close(b) ==
    /\ IF b.timers # Nil THEN ClearAll ELSE UNCHANGED timer_vars
    /\ active_sessions' =
         IF b.session_key # Nil THEN unregister(active_sessions, b.session_key)
         ELSE active_sessions
    /\ bridge' = [b EXCEPT !.pc = "closing"]

\* `await dg_ws.send(json.dumps(config))` returns: the session is
\* registered, stop_event and transcript are bound, the timers and the two
\* relay tasks are created and the coroutine awaits gather()
SendSettingsReturns ==
    /\ bridge.pc = "settings"
    /\ dg_sent' = Append(dg_sent, SettingsMsg)
    /\ active_sessions' = register(active_sessions, bridge.session_key, "dg_ws")
    /\ bridge' = [bridge EXCEPT !.pc = "running", !.bound = TRUE,
                                !.timers = IF bridge.SESSION_TIMER_ENABLED
                                           THEN "timers" ELSE Nil]
    /\ stop_event' = FALSE
    /\ transcript' = <<>>
    /\ d2t' = NewD2T
    /\ t2d' = [pc |-> "recv"]
    /\ UNCHANGED <<timer_vars, stop_set_at>>

\* `await dg_ws.send(json.dumps(config))` raises: the exception leaves the
\* try block, which has no except clause, through the finally block
SendSettingsRaises ==
    /\ bridge.pc = "settings"
    /\ finally_to_close([bridge EXCEPT !.exc = TRUE])
    /\ UNCHANGED <<stop_event, stop_set_at, d2t, t2d, dg_sent, transcript>>

\* the end of run_agent_bridge: the pending exception, if any, propagates
bridge_finished(b) == [b EXCEPT !.pc = IF b.exc THEN "raised" ELSE "returned"]

\* `await dg_ws.close()` returns, or raises an Exception that is swallowed;
\* without a prompt override _generate_next_greeting is called with the
\* local transcript, which is unbound unless Settings was sent
CloseDone ==
    /\ bridge.pc = "closing"
    /\ LET b == [bridge EXCEPT !.closed = TRUE] IN
         bridge' = IF b.prompt_override THEN bridge_finished(b)
                   ELSE IF ~b.bound THEN [b EXCEPT !.pc = "raised", !.exc = TRUE]
                   ELSE [b EXCEPT !.pc = "greeting",
                                  !.post = Append(@, "generate_next_greeting")]
    /\ UNCHANGED <<timer_vars, active_sessions, stop_event, stop_set_at, d2t, t2d,
                   dg_sent, transcript>>

\* _generate_next_greeting returns; _notify_child_sessions is awaited
GreetingReturns ==
    /\ bridge.pc = "greeting"
    /\ bridge' = [bridge EXCEPT !.pc = "notifying",
                                !.post = Append(@, "notify_child_sessions")]
    /\ UNCHANGED <<timer_vars, active_sessions, stop_event, stop_set_at, d2t, t2d,
                   dg_sent, transcript>>

Extractions == <<"generate_call_summary", "extract_user_profile", "extract_agent_identity">>

\* _notify_child_sessions returns or raises (swallowed);
\* `if transcript and settings.POST_CALL_EXTRACTION:` gathers the extractions
NotifyReturns ==
    /\ bridge.pc = "notifying"
    /\ bridge' = IF transcript # <<>> /\ bridge.POST_CALL_EXTRACTION
                 THEN [bridge EXCEPT !.pc = "extracting", !.post = @ \o Extractions]
                 ELSE bridge_finished(bridge)
    /\ UNCHANGED <<timer_vars, active_sessions, stop_event, stop_set_at, d2t, t2d,
                   dg_sent, transcript>>

\* gather(..., return_exceptions=True) of the extractions returns
ExtractionsReturn ==
    /\ bridge.pc = "extracting"
    /\ bridge' = bridge_finished(bridge)
    /\ UNCHANGED <<timer_vars, active_sessions, stop_event, stop_set_at, d2t, t2d,
                   dg_sent, transcript>>

\* stop_event.set(); the history variable keeps the first setter
set_stop(at) ==
    /\ stop_event' = TRUE
    /\ stop_set_at' = IF stop_event THEN stop_set_at ELSE at

\* `if timers:` guards every use of the timers in the relay
IfTimers(A) ==
    IF bridge.timers # Nil THEN A ELSE UNCHANGED timer_vars

hang_up_at_once(next) ==
    /\ d2t' = [next EXCEPT !.end_call_farewell_pending = FALSE, !.pc = "done"]
    /\ set_stop("AgentAudioDone")

\* the farewell has been spoken: the task starts its grace sleep
hang_up_after_grace(next) ==
    /\ d2t' = [next EXCEPT !.end_call_farewell_pending = FALSE,
                           !.pc = "grace", !.rem = GRACE_SLEEP_S]
    /\ UNCHANGED <<stop_event, stop_set_at>>

\* The agent's speech after message m, where a specification follows it:
\* "quiet", "speaking" (AgentStartedSpeaking with no AgentAudioDone yet), and
\* from an end_call request on "farewell" when the next AgentAudioDone ends
\* the farewell, "earlier" when it ends an utterance that was in progress
\* when end_call was requested.
heard(u, m) ==
    CASE u = "untracked" -> u
      [] m.type = "AgentStartedSpeaking" /\ u = "quiet" -> "speaking"
      [] m.type = "AgentAudioDone" /\ u = "speaking" -> "quiet"
      [] m.type = "AgentAudioDone" /\ u = "earlier" -> "farewell"
      [] m.type = "FunctionCallRequest" /\ m.function_name = "end_call" /\ u = "speaking"
           -> "earlier"
      [] m.type = "FunctionCallRequest" /\ m.function_name = "end_call" /\ u = "quiet"
           -> "farewell"
      [] OTHER -> u

\* text that json.loads rejects, a type the relay has no branch for, and a
\* function call the relay does not serve
NotForTheRelay(m) ==
    \/ m.type \in {"bad_json", "Unknown"}
    \/ m.type = "FunctionCallRequest" /\ m.function_name # "end_call"

served_any_function(fn_name) == TRUE

\* `if fn_name == "end_call":`
served(fn_name) == fn_name = "end_call"

\* the d2t task's next message is handled up to its first await
D2T_Dispatch(m) ==
    LET next == [d2t EXCEPT !.n = @ + 1, !.utterance = heard(@, m),
                            !.skipped = IF @ = "no" /\ NotForTheRelay(m)
                                        THEN "yes" ELSE @] IN
    CASE m.type = "bytes" ->
           /\ d2t' = [next EXCEPT !.pc = "send_media"]
           /\ UNCHANGED <<timer_vars, stop_event, stop_set_at, dg_sent, transcript>>
      [] m.type = "ConversationText" ->
           /\ IF m.content # ""
              THEN /\ Len(transcript) < MaxTranscript
                   /\ transcript' = Append(transcript, TranscriptEntry(m.role, m.content))
              ELSE UNCHANGED transcript
           /\ IfTimers(IF m.role = "user" THEN OnUserSpoke
                       ELSE IF m.role = "assistant" THEN OnAgentStartedSpeaking
                       ELSE UNCHANGED timer_vars)
           /\ d2t' = next
           /\ UNCHANGED <<stop_event, stop_set_at, dg_sent>>
      [] m.type = "UserStartedSpeaking" ->
           /\ d2t' = [next EXCEPT !.pc = "send_clear"]
           /\ UNCHANGED <<timer_vars, stop_event, stop_set_at, dg_sent, transcript>>
      [] m.type = "AgentStartedSpeaking" ->
           /\ IfTimers(OnAgentStartedSpeaking)
           /\ d2t' = next
           /\ UNCHANGED <<stop_event, stop_set_at, dg_sent, transcript>>
      [] m.type = "AgentAudioDone" ->
           /\ IfTimers(OnAgentAudioDone)
           /\ IF d2t.end_call_farewell_pending
              THEN hang_up_after_grace(next)
              ELSE d2t' = next /\ UNCHANGED <<stop_event, stop_set_at>>
           /\ UNCHANGED <<dg_sent, transcript>>
      [] m.type = "FunctionCallRequest" /\ served(m.function_name) ->
           /\ IfTimers(ClearAll)
           /\ Len(dg_sent) <= MaxSent
           /\ dg_sent' = Append(dg_sent, FunctionCallResponse(m.function_call_id))
           /\ d2t' = [next EXCEPT !.pc = "send_ack", !.msg = m, !.mark = Len(dg_sent)]
           /\ UNCHANGED <<stop_event, stop_set_at, transcript>>
      [] OTHER ->
           /\ d2t' = next
           /\ UNCHANGED <<timer_vars, stop_event, stop_set_at, dg_sent, transcript>>

\* variant: the loop body does not test stop_event
D2T_Receive_without_stop_test(m) ==
    /\ bridge.pc = "running"
    /\ d2t.pc = "recv"
    /\ d2t.n < MaxMsgs
    /\ D2T_Dispatch(m)
    /\ UNCHANGED <<bridge, t2d>>

\* `async for message in dg_ws` yields a message;
\* `if stop_event.is_set(): return`
D2T_Receive(m) ==
    /\ bridge.pc = "running"
    /\ d2t.pc = "recv"
    /\ d2t.n < MaxMsgs
    /\ IF stop_event
       THEN /\ d2t' = [d2t EXCEPT !.pc = "done", !.dropped = TRUE]
            /\ UNCHANGED <<timer_vars, stop_event, stop_set_at, dg_sent, transcript>>
       ELSE D2T_Dispatch(m)
    /\ UNCHANGED <<bridge, t2d>>

\* an awaited send of the d2t task returns, or raises
D2T_SendReturns(ok) ==
    /\ d2t.pc \in {"send_media", "send_clear", "send_ack", "send_farewell"}
    /\ CASE d2t.pc = "send_media" ->
              /\ d2t' = [d2t EXCEPT !.pc = IF ok THEN "recv" ELSE "done"]
              /\ IF ok THEN UNCHANGED <<stop_event, stop_set_at>>
                 ELSE set_stop("send_media")
              /\ UNCHANGED <<timer_vars, dg_sent>>
         [] d2t.pc = "send_clear" ->
              /\ d2t' = [d2t EXCEPT !.pc = IF ok THEN "recv" ELSE "done"]
              /\ IF ok
                 THEN /\ IfTimers(OnUserStartedSpeaking)
                      /\ UNCHANGED <<stop_event, stop_set_at>>
                 ELSE /\ set_stop("send_clear")
                      /\ UNCHANGED timer_vars
              /\ UNCHANGED dg_sent
         [] d2t.pc = "send_ack" ->
              /\ IF ok
                 THEN /\ Len(dg_sent) <= MaxSent
                      /\ dg_sent' = Append(dg_sent,
                                      InjectAgentMessage(farewell_of(d2t.msg), "d2t"))
                      /\ d2t' = [d2t EXCEPT !.pc = "send_farewell"]
                 ELSE /\ d2t' = [d2t EXCEPT !.pc = "done", !.closed = TRUE]
                      /\ UNCHANGED dg_sent
              /\ UNCHANGED <<timer_vars, stop_event, stop_set_at>>
         [] d2t.pc = "send_farewell" ->
              /\ d2t' = IF ok
                        THEN [d2t EXCEPT !.pc = "recv",
                                         !.end_call_farewell_pending = TRUE]
                        ELSE [d2t EXCEPT !.pc = "done", !.closed = TRUE]
              /\ UNCHANGED <<timer_vars, stop_event, stop_set_at, dg_sent>>
    /\ UNCHANGED <<bridge, t2d, transcript>>

\* `await asyncio.sleep(1.0)` returns: stop_event.set(); return
D2T_GraceOver ==
    /\ d2t.pc = "grace"
    /\ d2t.rem = 0
    /\ set_stop("grace")
    /\ d2t' = [d2t EXCEPT !.pc = "done"]
    /\ UNCHANGED <<timer_vars, bridge, t2d, dg_sent, transcript>>

\* the agent connection closes while the d2t task waits for a message:
\* `except ConnectionClosed` logs, and the end of the stream ends the loop
D2T_ConnectionClosed ==
    /\ bridge.pc = "running"
    /\ d2t.pc = "recv"
    /\ d2t' = [d2t EXCEPT !.pc = "done", !.closed = TRUE]
    /\ UNCHANGED <<timer_vars, bridge, stop_event, stop_set_at, t2d, dg_sent, transcript>>

TwilioEvents == {"media", "media_empty", "unparsed", "mark", "stop"}

\* `while not stop_event.is_set()` finds the event set
T2D_LoopExits ==
    /\ t2d.pc = "recv"
    /\ stop_event
    /\ t2d' = [t2d EXCEPT !.pc = "done"]
    /\ UNCHANGED <<timer_vars, bridge, stop_event, stop_set_at, d2t, dg_sent, transcript>>

\* receive_text() returns a frame within the timeout
T2D_Frame(ev) ==
    /\ t2d.pc = "wait"
    /\ CASE ev = "media" ->
              /\ t2d' = [t2d EXCEPT !.pc = "send_audio"]
              /\ UNCHANGED <<stop_event, stop_set_at>>
         [] ev = "stop" ->
              /\ t2d' = [t2d EXCEPT !.pc = "done"]
              /\ set_stop("t2d")
         [] OTHER ->
              /\ t2d' = [t2d EXCEPT !.pc = "recv"]
              /\ UNCHANGED <<stop_event, stop_set_at>>
    /\ UNCHANGED <<timer_vars, bridge, d2t, dg_sent, transcript>>

\* the loop test passes and the task awaits receive_text()
T2D_Waits ==
    /\ bridge.pc = "running"
    /\ t2d.pc = "recv"
    /\ ~stop_event
    /\ t2d' = [t2d EXCEPT !.pc = "wait"]
    /\ UNCHANGED <<timer_vars, bridge, stop_event, stop_set_at, d2t, dg_sent, transcript>>

\* asyncio.TimeoutError: continue
T2D_Timeout ==
    /\ t2d.pc = "wait"
    /\ t2d' = [t2d EXCEPT !.pc = "recv"]
    /\ UNCHANGED <<timer_vars, bridge, stop_event, stop_set_at, d2t, dg_sent, transcript>>

\* `await dg_ws.send(audio)` returns, or raises ConnectionClosed, as it
\* does on a connection found closed
T2D_SendReturns(ok) ==
    /\ t2d.pc = "send_audio"
    /\ d2t.closed => ~ok
    /\ t2d' = [t2d EXCEPT !.pc = IF ok THEN "recv" ELSE "done"]
    /\ IF ok THEN UNCHANGED <<stop_event, stop_set_at>> ELSE set_stop("t2d")
    /\ UNCHANGED <<timer_vars, bridge, d2t, dg_sent, transcript>>

\* receive_text() raises WebSocketDisconnect
T2D_Disconnect ==
    /\ t2d.pc = "wait"
    /\ t2d' = [t2d EXCEPT !.pc = "done"]
    /\ set_stop("t2d")
    /\ UNCHANGED <<timer_vars, bridge, d2t, dg_sent, transcript>>

\* A step of the call's timers with the callbacks run_agent_bridge gave them:
\* inject_message sends InjectAgentMessage on the agent connection and
\* end_call sets stop_event.
BridgeTimers(A) ==
    /\ bridge.timers # Nil
    /\ A
    /\ LET called == Len(cb_calls') > Len(cb_calls)
           e      == cb_calls'[Len(cb_calls')]
       IN /\ IF called /\ e.call = "inject_message"
             THEN /\ Len(dg_sent) <= MaxSent
                  /\ dg_sent' = Append(dg_sent,
                                  InjectAgentMessage(Message(e.kind), "timers"))
             ELSE UNCHANGED dg_sent
          /\ IF called /\ e.call = "end_call"
             THEN set_stop("timers")
             ELSE UNCHANGED <<stop_event, stop_set_at>>
    /\ UNCHANGED <<bridge, d2t, t2d, transcript>>

\* one tick passes for the call: its timers and the grace sleep
BridgeTick ==
    /\ Waiting(timers) \/ d2t.pc = "grace"
    /\ NothingDue(timers)
    /\ d2t.pc = "grace" => d2t.rem > 0
    /\ timers' = Elapse(timers)
    /\ d2t' = IF d2t.pc = "grace" THEN [d2t EXCEPT !.rem = @ - 1] ELSE d2t
    /\ UNCHANGED <<config, cb_calls, idle_cleared, response_cleared,
                   idle_interrupted, idle_prompt_fired, scenario>>
    /\ UNCHANGED <<bridge, stop_event, stop_set_at, t2d, dg_sent, transcript>>

\* gather() returns and the finally block runs up to `await dg_ws.close()`
Teardown ==
    /\ bridge.pc = "running"
    /\ d2t.pc = "done"
    /\ t2d.pc = "done"
    /\ finally_to_close(bridge)
    /\ UNCHANGED <<stop_event, stop_set_at, d2t, t2d, dg_sent, transcript>>

BridgeNext ==
    \/ (\E m \in AgentMsgs : D2T_Receive(m)) /\ UNCHANGED <<proxy_vars, injector_vars, pure_vars, calls>>
    \/ (\E ok \in BOOLEAN : D2T_SendReturns(ok)) /\ UNCHANGED <<proxy_vars, injector_vars, pure_vars, calls>>
    \/ D2T_GraceOver /\ UNCHANGED <<proxy_vars, injector_vars, pure_vars, calls>>
    \/ D2T_ConnectionClosed /\ UNCHANGED <<proxy_vars, injector_vars, pure_vars, calls>>
    \/ T2D_Waits /\ UNCHANGED <<proxy_vars, injector_vars, pure_vars, calls>>
    \/ T2D_LoopExits /\ UNCHANGED <<proxy_vars, injector_vars, pure_vars, calls>>
    \/ (\E ev \in TwilioEvents : T2D_Frame(ev)) /\ UNCHANGED <<proxy_vars, injector_vars, pure_vars, calls>>
    \/ T2D_Timeout /\ UNCHANGED <<proxy_vars, injector_vars, pure_vars, calls>>
    \/ (\E ok \in BOOLEAN : T2D_SendReturns(ok)) /\ UNCHANGED <<proxy_vars, injector_vars, pure_vars, calls>>
    \/ T2D_Disconnect /\ UNCHANGED <<proxy_vars, injector_vars, pure_vars, calls>>
    \/ (\E h \in HandleIds : BridgeTimers(TimerFires(h))) /\ UNCHANGED <<proxy_vars, injector_vars, pure_vars, calls>>
    \/ (\E t \in Tasks : BridgeTimers(TaskStarts(t))) /\ Len(cb_calls') <= MaxCalls
          /\ UNCHANGED <<proxy_vars, injector_vars, pure_vars, calls>>
    \/ (\E t \in Tasks, ok \in BOOLEAN : BridgeTimers(InjectReturns(t, ok)))
          /\ UNCHANGED <<proxy_vars, injector_vars, pure_vars, calls>>
    \/ (\E t \in Tasks : BridgeTimers(SleepReturns(t))) /\ Len(cb_calls') <= MaxCalls
          /\ UNCHANGED <<proxy_vars, injector_vars, pure_vars, calls>>
    \/ BridgeTick /\ UNCHANGED <<proxy_vars, injector_vars, pure_vars, calls>>
    \/ Teardown /\ UNCHANGED <<settings, inflight, reqs, injector_vars, pure_vars, calls>>
    \/ ConnectRaises /\ UNCHANGED <<settings, inflight, reqs, injector_vars, pure_vars, calls>>
    \/ ConnectReturns /\ UNCHANGED <<settings, inflight, reqs, injector_vars, pure_vars, calls>>
    \/ SendSettingsReturns /\ UNCHANGED <<settings, inflight, reqs, injector_vars, pure_vars, calls>>
    \/ SendSettingsRaises /\ UNCHANGED <<settings, inflight, reqs, injector_vars, pure_vars, calls>>
    \/ CloseDone /\ UNCHANGED <<settings, inflight, reqs, injector_vars, pure_vars, calls>>
    \/ GreetingReturns /\ UNCHANGED <<settings, inflight, reqs, injector_vars, pure_vars, calls>>
    \/ NotifyReturns /\ UNCHANGED <<settings, inflight, reqs, injector_vars, pure_vars, calls>>
    \/ ExtractionsReturn /\ UNCHANGED <<settings, inflight, reqs, injector_vars, pure_vars, calls>>

\* ------------------------------------------------------------------------
\* Tool-status injector (app/services/voice_status_injector.py)
\* One tick of the clock is 3.5 seconds.
\* ------------------------------------------------------------------------
COOLDOWN_SECONDS == 2

INITIAL_HOLDOFF_SECONDS == 1

DEFAULT_PHRASE == "Still working on that."

\* the keys of TOOL_PHRASES the model uses, in the dict's order
TOOL_PHRASES ==
    << [key |-> "web_search", phrase |-> "Let me search for that."],
       [key |-> "read_file",  phrase |-> "Checking some results."] >>

ToolNames == {"web_search", "read_file", "mcp__brave__web_search", "deploy"}

\* `key in tool_name` for the names above
IsSubstring(key, tool_name) ==
    \/ key = tool_name
    \/ key = "web_search" /\ tool_name = "mcp__brave__web_search"

get_tool_phrase(tool_name) ==
    LET exact == {i \in 1..Len(TOOL_PHRASES) : TOOL_PHRASES[i].key = tool_name}
        sub   == {i \in 1..Len(TOOL_PHRASES) : IsSubstring(TOOL_PHRASES[i].key, tool_name)}
        first(S) == CHOOSE i \in S : \A j \in S : i <= j
    IN IF exact # {} THEN TOOL_PHRASES[first(exact)].phrase
       ELSE IF sub # {} THEN TOOL_PHRASES[first(sub)].phrase
       ELSE DEFAULT_PHRASE

Max(a, b) == IF a >= b THEN a ELSE b

VsHandleIds == 1..MaxPending

\* VoiceStatusInjector.__init__; loop holds the handles call_later returned
\* that have neither run nor been cancelled
\* nothing sent and nothing skipped yet (-1: never)
NoLog ==
    [phrase |-> "", at |-> -1, replaced |-> FALSE, seq |-> 0,
     prev_at |-> -1, skipped_at |-> -1]

NewInjector ==
    [last_inject_time |-> 0, request_started_at |-> 0,
     content_streaming |-> FALSE, stopped |-> FALSE, pending_inject |-> None,
     loop |-> {}]

InjectorKey == "agent:main:call"

inject_delay_holdoff_only(v, t) ==
    Max(0, (v.request_started_at + INITIAL_HOLDOFF_SECONDS) - t)

\* the delay _schedule_inject computes
inject_delay(v, t) ==
    LET holdoff_remaining  == Max(0, (v.request_started_at + INITIAL_HOLDOFF_SECONDS) - t)
        cooldown_remaining == Max(0, (v.last_inject_time + COOLDOWN_SECONDS) - t)
    IN Max(holdoff_remaining, cooldown_remaining)

schedule_inject_keeps_earlier(v, tool_name, t) ==
    IF v.content_streaming \/ v.stopped
    THEN v
    ELSE LET id == CHOOSE i \in VsHandleIds :
                      /\ i \notin {h.id : h \in v.loop}
                      /\ \A j \in VsHandleIds : j \notin {h.id : h \in v.loop} => i <= j
         IN [v EXCEPT !.pending_inject = id,
                      !.loop = @ \cup {[id |-> id, phrase |-> get_tool_phrase(tool_name),
                                        when |-> t + inject_delay(v, t),
                                        replaced |-> v.pending_inject # None]}]

\* _schedule_inject
schedule_inject(v, tool_name, t) ==
    IF v.content_streaming \/ v.stopped
    THEN v
    ELSE LET v1 == cancel_pending(v)
             id == CHOOSE i \in VsHandleIds :
                      /\ i \notin {h.id : h \in v1.loop}
                      /\ \A j \in VsHandleIds : j \notin {h.id : h \in v1.loop} => i <= j
         IN [v1 EXCEPT !.pending_inject = id,
                       !.loop = @ \cup {[id |-> id, phrase |-> get_tool_phrase(tool_name),
                                         when |-> t + inject_delay(v, t),
                                         replaced |-> v.pending_inject # None]}]

\* the gateway events _on_event tells apart
GatewayEvents ==
    {[kind |-> "tool_start", name |-> n] : n \in ToolNames}
    \cup {[kind |-> k, name |-> ""] : k \in {"chat_delta", "tool_start", "bad_data", "other"}}

on_event_delta_keeps_pending(v, ev, t) ==
    IF v.stopped \/ ev.kind = "bad_data" THEN v
    ELSE IF ev.kind = "tool_start" /\ ev.name # "" THEN schedule_inject(v, ev.name, t)
    ELSE IF ev.kind = "chat_delta" /\ ~v.content_streaming
         THEN [v EXCEPT !.content_streaming = TRUE]
    ELSE v

\* _on_event
on_event(v, ev, t) ==
    IF v.stopped \/ ev.kind = "bad_data" THEN v
    ELSE IF ev.kind = "tool_start" /\ ev.name # "" THEN schedule_inject(v, ev.name, t)
    ELSE IF ev.kind = "chat_delta" /\ ~v.content_streaming
         THEN cancel_pending([v EXCEPT !.content_streaming = TRUE])
    ELSE v

VsOnEvent(ev) ==
    /\ (ev.kind = "tool_start" /\ ev.name # "" /\ ~injector.stopped
            /\ ~injector.content_streaming)
          => \E i \in VsHandleIds : i \notin {h.id : h \in cancel_pending(injector).loop}
    /\ injector' = on_event(injector, ev, now)
    /\ UNCHANGED <<now, vs_log, active_sessions>>

\* reset(), called by the proxy on each request
VsReset ==
    /\ injector' = reset(injector, now)
    /\ UNCHANGED <<now, vs_log, active_sessions>>

\* stop(), up to its await
VsStop ==
    /\ injector' = cancel_pending([injector EXCEPT !.stopped = TRUE])
    /\ UNCHANGED <<now, vs_log, active_sessions>>

\* vs_log after handle h was sent / was skipped at time t
Sent_phrase(log, h, t) ==
    [log EXCEPT !.phrase = h.phrase, !.at = t, !.replaced = h.replaced,
                !.seq = 1 - @, !.prev_at = log.at]

Skipped_phrase(log, t) == [log EXCEPT !.skipped_at = t]

\* the loop runs a due handle: _do_inject(phrase)
VsDoInject(h) ==
    /\ h \in injector.loop
    /\ h.when <= now
    /\ LET v1 == [injector EXCEPT !.pending_inject = None, !.loop = @ \ {h}]
       IN IF v1.stopped \/ v1.content_streaming
             \/ is_muted(active_sessions, InjectorKey)
          THEN injector' = v1 /\ vs_log' = Skipped_phrase(vs_log, now)
          ELSE /\ injector' = [v1 EXCEPT !.last_inject_time = now]
               /\ vs_log' = Sent_phrase(vs_log, h, now)
    /\ UNCHANGED <<now, active_sessions>>

\* the session's mute flag is set or cleared
VsSetMuted(muted) ==
    /\ active_sessions' = set_muted(active_sessions, InjectorKey, muted)
    /\ UNCHANGED <<injector, now, vs_log>>

\* one tick passes; a due handle runs before the clock moves on
VsTick ==
    /\ now < MaxNow
    /\ \A h \in injector.loop : h.when > now
    /\ now' = now + 1
    /\ UNCHANGED <<injector, vs_log, active_sessions>>

InjectorNext ==
    \/ (\E ev \in GatewayEvents : VsOnEvent(ev))
          /\ UNCHANGED <<timer_vars, bridge_vars, settings, inflight, reqs, pure_vars, calls>>
    \/ VsReset /\ UNCHANGED <<timer_vars, bridge_vars, settings, inflight, reqs, pure_vars, calls>>
    \/ VsStop /\ UNCHANGED <<timer_vars, bridge_vars, settings, inflight, reqs, pure_vars, calls>>
    \/ (\E h \in injector.loop : VsDoInject(h))
          /\ UNCHANGED <<timer_vars, bridge_vars, settings, inflight, reqs, pure_vars, calls>>
    \/ (\E m \in BOOLEAN : VsSetMuted(m))
          /\ UNCHANGED <<timer_vars, bridge_vars, settings, inflight, reqs, pure_vars, calls>>
    \/ VsTick /\ UNCHANGED <<timer_vars, bridge_vars, settings, inflight, reqs, pure_vars, calls>>

\* ------------------------------------------------------------------------
\* should_unmute as a function of the session and the text
\* ------------------------------------------------------------------------
\* the pieces the texts are put together from
Fragments ==
    {
      <<"H", "e", "y">>,
      <<" ">>,
      <<"W", "r", "e", "n">>,
      <<"w", "r", "e", "n">>,
      <<"L", "a">>,
      <<"c", "e">>,
      <<"U", "n", "M", "u", "t", "e">>,
      <<"y", "o", "u", " ", "c", "a", "n", " ", "t", "a", "l", "k">>,
      <<"s", "t", "a", "r", "t">>,
      <<"t", "a", "l", "k", "i", "n", "g">>,
      <<"I", " ", "n", "e", "e", "d", " ", "y", "o", "u">>,
      <<"_">>
    }

RECURSIVE TextsOf(_)
TextsOf(n) ==
    IF n = 0 THEN {<<>>}
    ELSE LET shorter == TextsOf(n - 1)
         IN shorter \cup {t \o f : t \in shorter, f \in Fragments}

Texts == TextsOf(MaxFragments)

AgentNames == {NoName, <<"W", "r", "e", "n">>, <<"r", "e", "n">>}

UnmuteKey == "agent:main:call"

NoUnmute == [text |-> <<>>, pc |-> "idle", result |-> FALSE]

\* the caller (openclaw_proxy) asks should_unmute(session_key, user_message)
AskShouldUnmute ==
    /\ unmute_call.pc = "asked"
    /\ unmute_call' = [unmute_call EXCEPT !.pc = "answered",
                                !.result = should_unmute(active_sessions, UnmuteKey, unmute_call.text)]
    /\ UNCHANGED <<timer_vars, proxy_vars, bridge_vars, injector_vars, media,
                   registry_call, calls>>

UnmuteNext == AskShouldUnmute

\* ------------------------------------------------------------------------
\* Twilio media frames (app/services/twilio_media.py)
\* ------------------------------------------------------------------------
\* the base64 alphabet, value 0 first
B64Alphabet ==
    << "A", "B", "C", "D", "E", "F", "G", "H", "I", "J", "K", "L", "M", "N", "O", "P",
       "Q", "R", "S", "T", "U", "V", "W", "X", "Y", "Z", "a", "b", "c", "d", "e", "f",
       "g", "h", "i", "j", "k", "l", "m", "n", "o", "p", "q", "r", "s", "t", "u", "v",
       "w", "x", "y", "z", "0", "1", "2", "3", "4", "5", "6", "7", "8", "9", "+", "/" >>

\* the alphabet character of the 6-bit value n
b64_char(n) == B64Alphabet[n + 1]

\* the 6-bit value of an alphabet character
b64_value(c) == (CHOOSE i \in DOMAIN B64Alphabet : B64Alphabet[i] = c) - 1

\* base64.b64encode(audio).decode("ascii"); audio is a sequence of bytes 0..255
RECURSIVE b64encode(_)
b64encode(audio) ==
    IF Len(audio) = 0 THEN <<>>
    ELSE IF Len(audio) = 1
    THEN << b64_char(audio[1] \div 4), b64_char((audio[1] % 4) * 16), "=", "=" >>
    ELSE IF Len(audio) = 2
    THEN << b64_char(audio[1] \div 4),
            b64_char((audio[1] % 4) * 16 + audio[2] \div 16),
            b64_char((audio[2] % 16) * 4), "=" >>
    ELSE << b64_char(audio[1] \div 4),
            b64_char((audio[1] % 4) * 16 + audio[2] \div 16),
            b64_char((audio[2] % 16) * 4 + audio[3] \div 64),
            b64_char(audio[3] % 64) >> \o b64encode(SubSeq(audio, 4, Len(audio)))

\* base64.b64decode(payload) of a padded payload, four characters at a time
RECURSIVE b64decode(_)
b64decode(payload) ==
    IF Len(payload) < 4 THEN <<>>
    ELSE LET v1 == b64_value(payload[1])
             v2 == b64_value(payload[2])
             rest == SubSeq(payload, 5, Len(payload))
         IN IF payload[3] = "="
            THEN << v1 * 4 + v2 \div 16 >>
            ELSE IF payload[4] = "="
            THEN << v1 * 4 + v2 \div 16,
                    (v2 % 16) * 16 + b64_value(payload[3]) \div 4 >>
            ELSE << v1 * 4 + v2 \div 16,
                    (v2 % 16) * 16 + b64_value(payload[3]) \div 4,
                    (b64_value(payload[3]) % 4) * 64 + b64_value(payload[4]) >>
                 \o b64decode(rest)

\* JSON values: a string (its characters), an object (a function from keys
\* to values), or Python's None
JsonStr(chars) == [t |-> "str", v |-> chars]

JsonObj(members) == [t |-> "obj", v |-> members]

PyNone == [t |-> "None", v |-> <<>>]

PyBytes(bytes) == [t |-> "bytes", v |-> bytes]

\* the string escapes json.dumps writes for a quote and a backslash
RECURSIVE json_escape(_)
json_escape(chars) ==
    IF chars = <<>> THEN <<>>
    ELSE (IF Head(chars) \in {"\"", "\\"} THEN <<"\\", Head(chars)>> ELSE <<Head(chars)>>)
         \o json_escape(Tail(chars))

json_quote(chars) == <<"\"">> \o json_escape(chars) \o <<"\"">>

K_event == <<"e", "v", "e", "n", "t">>

K_media == <<"m", "e", "d", "i", "a">>

K_streamSid == <<"s", "t", "r", "e", "a", "m", "S", "i", "d">>

K_payload == <<"p", "a", "y", "l", "o", "a", "d">>

\* build_media_event: json.dumps of the media event
build_media_event(stream_sid, audio) ==
    <<"{">> \o json_quote(K_event) \o <<":", " ">> \o json_quote(K_media) \o <<",", " ">>
            \o json_quote(K_streamSid) \o <<":", " ">> \o json_quote(stream_sid) \o <<",", " ">>
            \o json_quote(K_media) \o <<":", " ">>
            \o <<"{">> \o json_quote(K_payload) \o <<":", " ">> \o json_quote(b64encode(audio))
            \o <<"}">> \o <<"}">>

\* json.loads, for objects and strings: each parser returns whether it
\* succeeded, the value and the position after it
ParseFail == [ok |-> FALSE, val |-> PyNone, next |-> 0]

RECURSIVE skip_ws(_, _)
skip_ws(raw, i) ==
    IF i <= Len(raw) /\ raw[i] = " " THEN skip_ws(raw, i + 1) ELSE i

\* the rest of a string, from position i right after its opening quote
RECURSIVE parse_string(_, _, _)
parse_string(raw, i, acc) ==
    IF i > Len(raw) THEN ParseFail
    ELSE IF raw[i] = "\"" THEN [ok |-> TRUE, val |-> JsonStr(acc), next |-> i + 1]
    ELSE IF raw[i] = "\\"
    THEN IF i + 1 <= Len(raw) /\ raw[i + 1] \in {"\"", "\\"}
         THEN parse_string(raw, i + 2, Append(acc, raw[i + 1]))
         ELSE ParseFail
    ELSE parse_string(raw, i + 1, Append(acc, raw[i]))

RECURSIVE parse_value(_, _)
RECURSIVE parse_members(_, _, _)
parse_value(raw, i) ==
    LET j == skip_ws(raw, i)
    IN IF j > Len(raw) THEN ParseFail
       ELSE IF raw[j] = "\"" THEN parse_string(raw, j + 1, <<>>)
       ELSE IF raw[j] = "{"
       THEN LET k == skip_ws(raw, j + 1)
            IN IF k <= Len(raw) /\ raw[k] = "}"
               THEN [ok |-> TRUE, val |-> JsonObj(<<>>), next |-> k + 1]
               ELSE parse_members(raw, k, <<>>)
       ELSE ParseFail

\* the members of an object from position i on, after those in members
parse_members(raw, i, members) ==
    LET j == skip_ws(raw, i)
    IN IF j > Len(raw) \/ raw[j] # "\"" THEN ParseFail
       ELSE LET key == parse_string(raw, j + 1, <<>>)
                c == skip_ws(raw, key.next)
            IN IF ~key.ok \/ c > Len(raw) \/ raw[c] # ":" THEN ParseFail
               ELSE LET val == parse_value(raw, c + 1)
                        e == skip_ws(raw, val.next)
                        more == (key.val.v :> val.val) @@ members
                    IN IF ~val.ok \/ e > Len(raw) THEN ParseFail
                       ELSE IF raw[e] = "}"
                       THEN [ok |-> TRUE, val |-> JsonObj(more), next |-> e + 1]
                       ELSE IF raw[e] = "," THEN parse_members(raw, e + 1, more)
                       ELSE ParseFail

\* parse_twilio_event: json.loads, None on a JSONDecodeError
parse_twilio_event(raw) ==
    LET parsed == parse_value(raw, 1)
    IN IF parsed.ok /\ skip_ws(raw, parsed.next) = Len(raw) + 1
       THEN parsed.val
       ELSE PyNone

\* dict.get(key, default)
dict_get(obj, key, default) ==
    IF key \in DOMAIN obj.v THEN obj.v[key] ELSE default

\* extract_audio_from_media_event
extract_audio_from_media_event(event) ==
    LET payload == dict_get(dict_get(event, K_media, JsonObj(<<>>)), K_payload, JsonStr(<<>>))
    IN IF payload.v = <<>>
       THEN PyNone
       ELSE PyBytes(b64decode(payload.v))

\* the bytes the audio chunks are made of
ByteValues == {0, 77, 251}

RECURSIVE AudioOf(_)
AudioOf(n) ==
    IF n = 0 THEN {<<>>}
    ELSE LET shorter == AudioOf(n - 1)
         IN shorter \cup {Append(a, b) : a \in shorter, b \in ByteValues}

StreamSids == {<<"S", "M", "1">>, <<"S", "\"", "M">>, <<"S", "\\", "M">>}

NoMedia ==
    [stream_sid |-> <<>>, audio |-> <<>>, raw |-> <<>>, event |-> PyNone, out |-> PyNone,
     pc |-> "idle"]

\* _deepgram_to_twilio builds the frame for a chunk of agent audio
BuildMediaEvent ==
    /\ media.pc = "audio"
    /\ media' = [media EXCEPT !.pc = "built",
                              !.raw = build_media_event(media.stream_sid, media.audio)]
    /\ UNCHANGED <<timer_vars, proxy_vars, bridge_vars, injector_vars, unmute_call,
                   registry_call, calls>>

\* the receiver of the frame parses it
ParseTwilioEvent ==
    /\ media.pc = "built"
    /\ media' = [media EXCEPT !.pc = "parsed", !.event = parse_twilio_event(media.raw)]
    /\ UNCHANGED <<timer_vars, proxy_vars, bridge_vars, injector_vars, unmute_call,
                   registry_call, calls>>

\* and takes the audio out of the event
ExtractAudio ==
    /\ media.pc = "parsed"
    /\ media.event.t = "obj"
    /\ media' = [media EXCEPT !.pc = "done",
                              !.out = extract_audio_from_media_event(media.event)]
    /\ UNCHANGED <<timer_vars, proxy_vars, bridge_vars, injector_vars, unmute_call,
                   registry_call, calls>>

MediaNext ==
    \/ BuildMediaEvent
    \/ ParseTwilioEvent
    \/ ExtractAudio

\* ------------------------------------------------------------------------
\* run_agent_bridge, from connect to return, for concurrent calls
\* (app/services/deepgram_agent.py)
\* ------------------------------------------------------------------------
CallNos == 1..MaxBridges

\* the call ids a caller passes (twilio_outbound_stream passes the stream's
\* session_id); None makes run_agent_bridge draw a uuid
CallIds == {"outbound-1"}

\* uuid.uuid4().hex[:12]: a fresh id for each run
Uuids == <<"uuid-1", "uuid-2", "uuid-3", "uuid-4">>

\* the connection connect() returns to each run
DgConns == <<"dg_ws_1", "dg_ws_2", "dg_ws_3", "dg_ws_4">>

\* f"agent:{settings.OPENCLAW_AGENT_ID}:{call_id}"
session_key_of(call_id) ==
    CASE call_id = "outbound-1" -> "agent:main:outbound-1"
      [] call_id = "uuid-1" -> "agent:main:uuid-1"
      [] call_id = "uuid-2" -> "agent:main:uuid-2"
      [] call_id = "uuid-3" -> "agent:main:uuid-3"
      [] OTHER -> "agent:main:uuid-4"

\* how a relay task ends: it returns (the telephony stop event, stop_event
\* seen, a disconnect or a closed connection, each caught in the task), it
\* raises, or it is cancelled
RelayExits == {"returned", "exception", "cancelled"}

NoCall ==
    [pc |-> "idle", call_id |-> Nil, session_key |-> Nil, dg_ws |-> Nil,
     t2d |-> "none", d2t |-> "none", cancel_requested |-> FALSE,
     n_register |-> 0, n_unregister |-> 0]

NoCalls == [c \in CallNos |-> NoCall]

\* a Twilio stream handler calls run_agent_bridge
StartBridge(c, call_id) ==
    /\ calls[c].pc = "idle"
    /\ calls' = [calls EXCEPT ![c].pc = "connect", ![c].call_id = call_id]
    /\ UNCHANGED active_sessions

\* connect() raises: logged, return
ConnectFails(c) ==
    /\ calls[c].pc = "connect"
    /\ calls' = [calls EXCEPT ![c].pc = "returned"]
    /\ UNCHANGED active_sessions

\* connect() returns; call_id and session_key are set and the Settings
\* message is handed to dg_ws.send
Connected(c) ==
    /\ calls[c].pc = "connect"
    /\ LET call_id == IF calls[c].call_id = Nil THEN Uuids[c] ELSE calls[c].call_id
       IN calls' = [calls EXCEPT ![c].pc = "settings",
                                 ![c].dg_ws = DgConns[c],
                                 ![c].call_id = call_id,
                                 ![c].session_key = session_key_of(call_id)]
    /\ UNCHANGED active_sessions

\* the finally block up to "await dg_ws.close()"
finally_block(sessions, call) ==
    IF call.session_key # Nil THEN unregister(sessions, call.session_key) ELSE sessions

\* the Settings send returns: register, create both relay tasks, await gather
SettingsSent(c) ==
    /\ calls[c].pc = "settings"
    /\ active_sessions' = register(active_sessions, calls[c].session_key, calls[c].dg_ws)
    /\ calls' = [calls EXCEPT ![c].pc = "gather",
                              ![c].n_register = @ + 1,
                              ![c].t2d = "running",
                              ![c].d2t = "running"]

\* the Settings send raises, or the run is cancelled while it waits for it
SettingsRaises(c) ==
    /\ calls[c].pc = "settings"
    /\ active_sessions' = finally_block(active_sessions, calls[c])
    /\ calls' = [calls EXCEPT ![c].pc = "closing",
                              ![c].n_unregister = @ + (IF calls[c].session_key # Nil THEN 1 ELSE 0)]

\* a relay task returns or raises
RelayEnds(c, task, how) ==
    /\ calls[c][task] = "running"
    /\ (how = "cancelled") = calls[c].cancel_requested
    /\ calls' = [calls EXCEPT ![c][task] = how]
    /\ UNCHANGED active_sessions

\* the run is cancelled while it awaits gather: gather cancels its children
\* and completes when they have finished
CancelGather(c) ==
    /\ calls[c].pc = "gather"
    /\ ~calls[c].cancel_requested
    /\ calls' = [calls EXCEPT ![c].cancel_requested = TRUE]
    /\ UNCHANGED active_sessions

gather_raises_first(call) ==
    \/ call.t2d \in RelayExits /\ call.d2t \in RelayExits
    \/ "exception" \in {call.t2d, call.d2t}

\* asyncio.gather(t2d, d2t, return_exceptions=True) is done
gather_done(call) ==
    call.t2d \in RelayExits /\ call.d2t \in RelayExits

\* gather completes and the finally block runs
GatherReturns(c) ==
    /\ calls[c].pc = "gather"
    /\ gather_done(calls[c])
    /\ active_sessions' = finally_block(active_sessions, calls[c])
    /\ calls' = [calls EXCEPT ![c].pc = "closing",
                              ![c].n_unregister = @ + (IF calls[c].session_key # Nil THEN 1 ELSE 0)]

\* dg_ws.close() returns or raises, the post-call work ends, the run returns
CloseReturns(c) ==
    /\ calls[c].pc = "closing"
    /\ calls' = [calls EXCEPT ![c].pc = "returned"]
    /\ UNCHANGED active_sessions

CallsNext ==
    \/ (\E c \in CallNos, id \in CallIds \cup {Nil} : StartBridge(c, id))
          /\ UNCHANGED <<timer_vars, bridge_vars, injector_vars, pure_vars, settings, inflight, reqs>>
    \/ (\E c \in CallNos : ConnectFails(c))
          /\ UNCHANGED <<timer_vars, bridge_vars, injector_vars, pure_vars, settings, inflight, reqs>>
    \/ (\E c \in CallNos : Connected(c))
          /\ UNCHANGED <<timer_vars, bridge_vars, injector_vars, pure_vars, settings, inflight, reqs>>
    \/ (\E c \in CallNos : SettingsSent(c))
          /\ UNCHANGED <<timer_vars, bridge_vars, injector_vars, pure_vars, settings, inflight, reqs>>
    \/ (\E c \in CallNos : SettingsRaises(c))
          /\ UNCHANGED <<timer_vars, bridge_vars, injector_vars, pure_vars, settings, inflight, reqs>>
    \/ (\E c \in CallNos, task \in {"t2d", "d2t"}, how \in RelayExits : RelayEnds(c, task, how))
          /\ UNCHANGED <<timer_vars, bridge_vars, injector_vars, pure_vars, settings, inflight, reqs>>
    \/ (\E c \in CallNos : CancelGather(c))
          /\ UNCHANGED <<timer_vars, bridge_vars, injector_vars, pure_vars, settings, inflight, reqs>>
    \/ (\E c \in CallNos : GatherReturns(c))
          /\ UNCHANGED <<timer_vars, bridge_vars, injector_vars, pure_vars, settings, inflight, reqs>>
    \/ (\E c \in CallNos : CloseReturns(c))
          /\ UNCHANGED <<timer_vars, bridge_vars, injector_vars, pure_vars, settings, inflight, reqs>>

\* ------------------------------------------------------------------------
\* Specifications
\* ------------------------------------------------------------------------
\* SessionTimers alone, driven by any sequence of its public methods
InitTimers ==
    /\ config \in Configs
    /\ timers = NewTimers
    /\ cb_calls = <<>>
    /\ idle_cleared = FALSE
    /\ response_cleared = FALSE
    /\ idle_interrupted = FALSE
    /\ idle_prompt_fired = "untracked"
    /\ scenario = "init"
    /\ settings = [FILLER_THRESHOLD_MS |-> 1500]
    /\ active_sessions = <<>>
    /\ inflight = <<>>
    /\ reqs = <<>>
    /\ bridge = NoBridge
    /\ stop_event = FALSE
    /\ stop_set_at = Nil
    /\ d2t = NewD2T
    /\ t2d = [pc |-> "recv"]
    /\ dg_sent = <<>>
    /\ transcript = <<>>
    /\ injector = NewInjector
    /\ now = 0
    /\ vs_log = NoLog
    /\ calls = NoCalls
    /\ unmute_call = NoUnmute
    /\ registry_call = NoRegistryCall
    /\ media = NoMedia

SpecTimers == InitTimers /\ [][TimersNext]_vars

\* the same machine, with the history of clear_all() kept
InitClearAll ==
    /\ config \in Configs
    /\ timers = NewTimers
    /\ cb_calls = <<>>
    /\ idle_cleared = FALSE
    /\ response_cleared = FALSE
    /\ idle_interrupted = FALSE
    /\ idle_prompt_fired = "untracked"
    /\ scenario = "uncleared"
    /\ settings = [FILLER_THRESHOLD_MS |-> 1500]
    /\ active_sessions = <<>>
    /\ inflight = <<>>
    /\ reqs = <<>>
    /\ bridge = NoBridge
    /\ stop_event = FALSE
    /\ stop_set_at = Nil
    /\ d2t = NewD2T
    /\ t2d = [pc |-> "recv"]
    /\ dg_sent = <<>>
    /\ transcript = <<>>
    /\ injector = NewInjector
    /\ now = 0
    /\ vs_log = NoLog
    /\ calls = NoCalls
    /\ unmute_call = NoUnmute
    /\ registry_call = NoRegistryCall
    /\ media = NoMedia

SpecClearAll == InitClearAll /\ [][TimersNext]_vars

\* every setting of the idle chain, with the response chain disabled
IdleConfigs ==
    {TimerConfig(TRUE, 0, 0, ip, ie, msg) :
        ip \in Durations, ie \in Durations, msg \in {"", "msg"}}

\* the same machine, with the history of the idle prompt kept
InitIdlePrompt ==
    /\ config \in IdleConfigs
    /\ timers = NewTimers
    /\ cb_calls = <<>>
    /\ idle_cleared = FALSE
    /\ response_cleared = FALSE
    /\ idle_interrupted = FALSE
    /\ idle_prompt_fired = "no"
    /\ scenario = "init"
    /\ settings = [FILLER_THRESHOLD_MS |-> 1500]
    /\ active_sessions = <<>>
    /\ inflight = <<>>
    /\ reqs = <<>>
    /\ bridge = NoBridge
    /\ stop_event = FALSE
    /\ stop_set_at = Nil
    /\ d2t = NewD2T
    /\ t2d = [pc |-> "recv"]
    /\ dg_sent = <<>>
    /\ transcript = <<>>
    /\ injector = NewInjector
    /\ now = 0
    /\ vs_log = NoLog
    /\ calls = NoCalls
    /\ unmute_call = NoUnmute
    /\ registry_call = NoRegistryCall
    /\ media = NoMedia

SpecIdlePrompt == InitIdlePrompt /\ [][TimersNext]_vars

\* SessionTimers after one on_user_spoke() and no further events
InitResponse ==
    /\ config \in ResponseConfigs
    /\ timers = NewTimers
    /\ cb_calls = <<>>
    /\ idle_cleared = FALSE
    /\ response_cleared = FALSE
    /\ idle_interrupted = FALSE
    /\ idle_prompt_fired = "untracked"
    /\ scenario = "init"
    /\ settings = [FILLER_THRESHOLD_MS |-> 1500]
    /\ active_sessions = <<>>
    /\ inflight = <<>>
    /\ reqs = <<>>
    /\ bridge = NoBridge
    /\ stop_event = FALSE
    /\ stop_set_at = Nil
    /\ d2t = NewD2T
    /\ t2d = [pc |-> "recv"]
    /\ dg_sent = <<>>
    /\ transcript = <<>>
    /\ injector = NewInjector
    /\ now = 0
    /\ vs_log = NoLog
    /\ calls = NoCalls
    /\ unmute_call = NoUnmute
    /\ registry_call = NoRegistryCall
    /\ media = NoMedia

SpecResponse == InitResponse /\ [][ResponseNext]_vars

\* SessionTimers on a running event loop: a ready callback or task is run,
\* an awaited send returns or raises, and time passes
InitTimersLive ==
    /\ config \in LiveConfigs
    /\ timers = NewTimers
    /\ cb_calls = <<>>
    /\ idle_cleared = FALSE
    /\ response_cleared = FALSE
    /\ idle_interrupted = FALSE
    /\ idle_prompt_fired = "untracked"
    /\ scenario = "init"
    /\ settings = [FILLER_THRESHOLD_MS |-> 1500]
    /\ active_sessions = <<>>
    /\ inflight = <<>>
    /\ reqs = <<>>
    /\ bridge = NoBridge
    /\ stop_event = FALSE
    /\ stop_set_at = Nil
    /\ d2t = NewD2T
    /\ t2d = [pc |-> "recv"]
    /\ dg_sent = <<>>
    /\ transcript = <<>>
    /\ injector = NewInjector
    /\ now = 0
    /\ vs_log = NoLog
    /\ calls = NoCalls
    /\ unmute_call = NoUnmute
    /\ registry_call = NoRegistryCall
    /\ media = NoMedia

SpecTimersLive ==
    /\ InitTimersLive
    /\ [][LiveNext]_vars
    /\ WF_vars(LoopStep /\ UNCHANGED <<proxy_vars, bridge_vars, injector_vars, pure_vars, calls>>)

\* A call on which the caller never speaks.  The agent finishes speaking;
\* for every idle prompt injected the agent service reports
\* AgentStartedSpeaking and then AgentAudioDone, which the relay hands to
\* on_agent_started_speaking and on_agent_audio_done.  Sends succeed.
SilentConfigs ==
    {TimerConfig(TRUE, 0, 0, ip, ie, "msg") : ip \in {1, MaxMs}, ie \in {1, MaxMs}}

TimersFrame == UNCHANGED <<proxy_vars, bridge_vars, injector_vars, pure_vars, calls>>

AgentFinishesSpeaking == scenario = "agent_speaking" /\ OnAgentAudioDone

AgentSpeaksPrompt ==
    /\ scenario = "caller_silent"
    /\ timers.idle_prompted
    /\ OnAgentStartedSpeaking

SilentLoopStep ==
    \/ \E h \in HandleIds : TimerFires(h)
    \/ \E t \in Tasks : TaskStarts(t)
    \/ \E t \in Tasks : InjectReturns(t, TRUE)
    \/ \E t \in Tasks : SleepReturns(t)
    \/ Tick

SilentNext ==
    \/ AgentFinishesSpeaking /\ TimersFrame
    \/ AgentSpeaksPrompt /\ TimersFrame
    \/ (\E h \in HandleIds : TimerFires(h)) /\ TimersFrame
    \/ (\E t \in Tasks : TaskStarts(t)) /\ TimersFrame
    \/ (\E t \in Tasks : InjectReturns(t, TRUE)) /\ TimersFrame
    \/ (\E t \in Tasks : SleepReturns(t)) /\ TimersFrame
    \/ Tick /\ TimersFrame

InitSilent ==
    /\ config \in SilentConfigs
    /\ timers = NewTimers
    /\ cb_calls = <<>>
    /\ idle_cleared = FALSE
    /\ response_cleared = FALSE
    /\ idle_interrupted = FALSE
    /\ idle_prompt_fired = "untracked"
    /\ scenario = "agent_speaking"
    /\ settings = [FILLER_THRESHOLD_MS |-> 1500]
    /\ active_sessions = <<>>
    /\ inflight = <<>>
    /\ reqs = <<>>
    /\ bridge = NoBridge
    /\ stop_event = FALSE
    /\ stop_set_at = Nil
    /\ d2t = NewD2T
    /\ t2d = [pc |-> "recv"]
    /\ dg_sent = <<>>
    /\ transcript = <<>>
    /\ injector = NewInjector
    /\ now = 0
    /\ vs_log = NoLog
    /\ calls = NoCalls
    /\ unmute_call = NoUnmute
    /\ registry_call = NoRegistryCall
    /\ media = NoMedia

\* the event loop is fair to its own steps, and the agent service does
\* report what it speaks
SpecSilentCaller ==
    /\ InitSilent
    /\ [][SilentNext]_vars
    /\ WF_vars(SilentLoopStep /\ TimersFrame)
    /\ WF_vars(AgentFinishesSpeaking /\ TimersFrame)
    /\ WF_vars(AgentSpeaksPrompt /\ TimersFrame)

\* the proxy and the session registry; no call's timers are involved
InitProxy ==
    /\ settings \in [FILLER_THRESHOLD_MS : {0, 1500}]
    /\ active_sessions = <<>>
    /\ inflight = <<>>
    /\ reqs = <<>>
    /\ config = TimerConfig(FALSE, 1, MaxMs, 1, MaxMs, "msg")
    /\ timers = NewTimers
    /\ cb_calls = <<>>
    /\ idle_cleared = FALSE
    /\ response_cleared = FALSE
    /\ idle_interrupted = FALSE
    /\ idle_prompt_fired = "untracked"
    /\ scenario = "init"
    /\ bridge = NoBridge
    /\ stop_event = FALSE
    /\ stop_set_at = Nil
    /\ d2t = NewD2T
    /\ t2d = [pc |-> "recv"]
    /\ dg_sent = <<>>
    /\ transcript = <<>>
    /\ injector = NewInjector
    /\ now = 0
    /\ vs_log = NoLog
    /\ calls = NoCalls
    /\ unmute_call = NoUnmute
    /\ registry_call = NoRegistryCall
    /\ media = NoMedia

SpecProxy == InitProxy /\ [][ProxyNext]_vars

\* The proxy with sessions that get muted and that hold a status injector.
\* Some time has passed since the injector was constructed.
InitMute ==
    /\ settings \in [FILLER_THRESHOLD_MS : {0, 1500}]
    /\ active_sessions = <<>>
    /\ inflight = <<>>
    /\ reqs = <<>>
    /\ config = TimerConfig(FALSE, 1, MaxMs, 1, MaxMs, "msg")
    /\ timers = NewTimers
    /\ cb_calls = <<>>
    /\ idle_cleared = FALSE
    /\ response_cleared = FALSE
    /\ idle_interrupted = FALSE
    /\ idle_prompt_fired = "untracked"
    /\ scenario = "init"
    /\ bridge = NoBridge
    /\ stop_event = FALSE
    /\ stop_set_at = Nil
    /\ d2t = NewD2T
    /\ t2d = [pc |-> "recv"]
    /\ dg_sent = <<>>
    /\ transcript = <<>>
    /\ injector = [NewInjector EXCEPT !.content_streaming = TRUE]
    /\ now = 1
    /\ vs_log = NoLog
    /\ calls = NoCalls
    /\ unmute_call = NoUnmute
    /\ registry_call = NoRegistryCall
    /\ media = NoMedia

MuteNext ==
    \/ (\E k \in Keys, m \in UserMessages \cup {Nil}, sf \in BOOLEAN :
            Len(reqs) < MaxMuteReqs /\ Arrive(k, m, sf))
          /\ UNCHANGED <<bridge_vars, now, vs_log, pure_vars, calls>>
    \/ (\E r \in ReqIds, ok \in BOOLEAN : SendReturns(r, ok)) /\ UNCHANGED <<timer_vars, bridge_vars, injector_vars, pure_vars, calls>>
    \/ (\E r \in ReqIds, c \in BOOLEAN : Chunk(r, c)) /\ UNCHANGED <<timer_vars, bridge_vars, injector_vars, pure_vars, calls>>
    \/ (\E r \in ReqIds : StreamEnds(r)) /\ UNCHANGED <<timer_vars, bridge_vars, injector_vars, pure_vars, calls>>
    \/ (\E r \in ReqIds : ClientCloses(r)) /\ UNCHANGED <<timer_vars, bridge_vars, injector_vars, pure_vars, calls>>
    \/ (\E r \in ReqIds, p \in BOOLEAN : FillerRuns(r, p)) /\ UNCHANGED <<timer_vars, bridge_vars, injector_vars, pure_vars, calls>>
    \/ (\E k \in Keys, ws \in Conns : SessionRegistered(k, ws)) /\ UNCHANGED <<timer_vars, bridge_vars, injector_vars, pure_vars, calls>>
    \/ (\E k \in Keys : SessionUnregistered(k)) /\ UNCHANGED <<timer_vars, bridge_vars, injector_vars, pure_vars, calls>>
    \/ (\E k \in Keys : SessionMuted(k)) /\ UNCHANGED <<bridge_vars, injector_vars, pure_vars, calls>>
    \/ (\E k \in Keys : SessionInjectorSet(k)) /\ UNCHANGED <<timer_vars, bridge_vars, injector_vars, pure_vars, calls>>

SpecMute == InitMute /\ [][MuteNext]_vars

\* The requests of a session key whose calls come and go, one more request
\* than in SpecProxy; no filler is configured.
InitSupersede ==
    /\ InitProxy
    /\ settings.FILLER_THRESHOLD_MS = 0

SupersedeNext ==
    \/ (\E k \in Keys, ws \in Conns : SessionRegistered(k, ws)) /\ UNCHANGED <<timer_vars, bridge_vars, injector_vars, pure_vars, calls>>
    \/ (\E k \in Keys : SessionUnregistered(k)) /\ UNCHANGED <<timer_vars, bridge_vars, injector_vars, pure_vars, calls>>
    \/ (\E k \in Keys, m \in UserMessages \cup {Nil} : Arrive(k, m, FALSE))
          /\ UNCHANGED <<bridge_vars, now, vs_log, pure_vars, calls>>
    \/ (\E r \in 1..MaxArrivals, ok \in BOOLEAN : SendReturns(r, ok)) /\ UNCHANGED <<timer_vars, bridge_vars, injector_vars, pure_vars, calls>>
    \/ (\E r \in 1..MaxArrivals, c \in BOOLEAN : Chunk(r, c)) /\ UNCHANGED <<timer_vars, bridge_vars, injector_vars, pure_vars, calls>>
    \/ (\E r \in 1..MaxArrivals : StreamEnds(r)) /\ UNCHANGED <<timer_vars, bridge_vars, injector_vars, pure_vars, calls>>
    \/ (\E r \in 1..MaxArrivals : ClientCloses(r)) /\ UNCHANGED <<timer_vars, bridge_vars, injector_vars, pure_vars, calls>>

SpecSupersede == InitSupersede /\ [][SupersedeNext]_vars

\* the session registry alone, empty as at import
InitRegistry ==
    /\ InitProxy
    /\ settings.FILLER_THRESHOLD_MS = 0

SpecRegistry == InitRegistry /\ [][RegistryNext]_vars

\* The proxy with muted sessions that hold the timers of their call, as the
\* unmute tests configure it: no filler.
InitMuteTimers ==
    /\ InitMute
    /\ settings.FILLER_THRESHOLD_MS = 0

MuteTimersNext ==
    \/ (\E k \in Keys, m \in UserMessages \cup {Nil}, sf \in BOOLEAN :
            Len(reqs) < MaxMuteReqs /\ Arrive(k, m, sf))
          /\ UNCHANGED <<bridge_vars, now, vs_log, pure_vars, calls>>
    \/ (\E r \in ReqIds, ok \in BOOLEAN : SendReturns(r, ok)) /\ UNCHANGED <<timer_vars, bridge_vars, injector_vars, pure_vars, calls>>
    \/ (\E r \in ReqIds, c \in BOOLEAN : Chunk(r, c)) /\ UNCHANGED <<timer_vars, bridge_vars, injector_vars, pure_vars, calls>>
    \/ (\E r \in ReqIds : StreamEnds(r)) /\ UNCHANGED <<timer_vars, bridge_vars, injector_vars, pure_vars, calls>>
    \/ (\E r \in ReqIds : ClientCloses(r)) /\ UNCHANGED <<timer_vars, bridge_vars, injector_vars, pure_vars, calls>>
    \/ (\E k \in Keys, ws \in Conns : SessionRegistered(k, ws)) /\ UNCHANGED <<timer_vars, bridge_vars, injector_vars, pure_vars, calls>>
    \/ (\E k \in Keys : SessionUnregistered(k)) /\ UNCHANGED <<timer_vars, bridge_vars, injector_vars, pure_vars, calls>>
    \/ (\E k \in Keys : SessionMuted(k)) /\ UNCHANGED <<bridge_vars, injector_vars, pure_vars, calls>>
    \/ (\E k \in Keys : SessionInjectorSet(k)) /\ UNCHANGED <<timer_vars, bridge_vars, injector_vars, pure_vars, calls>>
    \/ (\E k \in Keys : SessionTimersSet(k)) /\ UNCHANGED <<timer_vars, bridge_vars, injector_vars, pure_vars, calls>>

SpecMuteTimers == InitMuteTimers /\ [][MuteTimersNext]_vars

\* one call's relay with the timers run_agent_bridge creates for it
\* the settings of a call; POST_CALL_EXTRACTION is read only in the branch
\* of the finally block that a prompt override skips
BridgeInputs ==
    {[NoBridge EXCEPT !.pc = "connecting", !.prompt_override = po,
                      !.SESSION_TIMER_ENABLED = te, !.POST_CALL_EXTRACTION = pe] :
        po \in BOOLEAN, te \in BOOLEAN, pe \in BOOLEAN}

InitBridge ==
    /\ bridge \in {b \in BridgeInputs : b.prompt_override => ~b.POST_CALL_EXTRACTION}
    /\ stop_event = FALSE
    /\ stop_set_at = Nil
    /\ d2t = NoD2T
    /\ t2d = NoT2D
    /\ dg_sent = <<>>
    /\ transcript = <<>>
    /\ injector = NewInjector
    /\ now = 0
    /\ vs_log = NoLog
    /\ calls = NoCalls
    /\ unmute_call = NoUnmute
    /\ registry_call = NoRegistryCall
    /\ media = NoMedia
    /\ config = TimerConfig(TRUE, 0, 1, 1, 0, "msg")
    /\ timers = NewTimers
    /\ cb_calls = <<>>
    /\ idle_cleared = FALSE
    /\ response_cleared = FALSE
    /\ idle_interrupted = FALSE
    /\ idle_prompt_fired = "untracked"
    /\ scenario = "init"
    /\ settings = [FILLER_THRESHOLD_MS |-> 1500]
    /\ active_sessions = <<>>
    /\ inflight = <<>>
    /\ reqs = <<>>

SpecBridge == InitBridge /\ [][BridgeNext]_vars

\* the relay of a call from the creation of its two tasks to the teardown
RelayNext ==
    \/ (\E m \in AgentMsgs : D2T_Receive(m)) /\ UNCHANGED <<proxy_vars, injector_vars, pure_vars, calls>>
    \/ (\E ok \in BOOLEAN : D2T_SendReturns(ok)) /\ UNCHANGED <<proxy_vars, injector_vars, pure_vars, calls>>
    \/ D2T_GraceOver /\ UNCHANGED <<proxy_vars, injector_vars, pure_vars, calls>>
    \/ D2T_ConnectionClosed /\ UNCHANGED <<proxy_vars, injector_vars, pure_vars, calls>>
    \/ T2D_Waits /\ UNCHANGED <<proxy_vars, injector_vars, pure_vars, calls>>
    \/ T2D_LoopExits /\ UNCHANGED <<proxy_vars, injector_vars, pure_vars, calls>>
    \/ (\E ev \in TwilioEvents : T2D_Frame(ev)) /\ UNCHANGED <<proxy_vars, injector_vars, pure_vars, calls>>
    \/ T2D_Timeout /\ UNCHANGED <<proxy_vars, injector_vars, pure_vars, calls>>
    \/ (\E ok \in BOOLEAN : T2D_SendReturns(ok)) /\ UNCHANGED <<proxy_vars, injector_vars, pure_vars, calls>>
    \/ T2D_Disconnect /\ UNCHANGED <<proxy_vars, injector_vars, pure_vars, calls>>
    \/ (\E h \in HandleIds : BridgeTimers(TimerFires(h))) /\ UNCHANGED <<proxy_vars, injector_vars, pure_vars, calls>>
    \/ (\E t \in Tasks : BridgeTimers(TaskStarts(t))) /\ Len(cb_calls') <= MaxCalls
          /\ UNCHANGED <<proxy_vars, injector_vars, pure_vars, calls>>
    \/ (\E t \in Tasks, ok \in BOOLEAN : BridgeTimers(InjectReturns(t, ok))) /\ UNCHANGED <<proxy_vars, injector_vars, pure_vars, calls>>
    \/ (\E t \in Tasks : BridgeTimers(SleepReturns(t))) /\ Len(cb_calls') <= MaxCalls
          /\ UNCHANGED <<proxy_vars, injector_vars, pure_vars, calls>>
    \/ BridgeTick /\ UNCHANGED <<proxy_vars, injector_vars, pure_vars, calls>>
    \/ Teardown /\ UNCHANGED <<settings, inflight, reqs, injector_vars, pure_vars, calls>>

\* the state run_agent_bridge is in when it awaits gather(), with the
\* history of the agent's speech kept
InitRelay ==
    /\ bridge \in {[NoBridge EXCEPT !.pc = "running", !.session_key = BridgeKey,
                                    !.bound = TRUE, !.prompt_override = po,
                                    !.SESSION_TIMER_ENABLED = te,
                                    !.timers = IF te THEN "timers" ELSE Nil] :
                      po \in BOOLEAN, te \in BOOLEAN}
    /\ stop_event = FALSE
    /\ stop_set_at = Nil
    /\ d2t = [NewD2T EXCEPT !.utterance = "quiet", !.skipped = "no"]
    /\ t2d = [pc |-> "recv"]
    /\ dg_sent = <<SettingsMsg>>
    /\ transcript = <<>>
    /\ injector = NewInjector
    /\ now = 0
    /\ vs_log = NoLog
    /\ calls = NoCalls
    /\ unmute_call = NoUnmute
    /\ registry_call = NoRegistryCall
    /\ media = NoMedia
    /\ config = TimerConfig(TRUE, 0, 1, 1, 0, "msg")
    /\ timers = NewTimers
    /\ cb_calls = <<>>
    /\ idle_cleared = FALSE
    /\ response_cleared = FALSE
    /\ idle_interrupted = FALSE
    /\ idle_prompt_fired = "untracked"
    /\ scenario = "init"
    /\ settings = [FILLER_THRESHOLD_MS |-> 1500]
    /\ active_sessions = register(<<>>, BridgeKey, "dg_ws")
    /\ inflight = <<>>
    /\ reqs = <<>>

SpecRelay == InitRelay /\ [][RelayNext]_vars

\* the relay of a call whose session gets muted
MutedRelayNext ==
    \/ RelayNext
    \/ SessionMuted(BridgeKey) /\ UNCHANGED <<bridge_vars, injector_vars, pure_vars, calls>>

SpecMutedCall == InitRelay /\ [][MutedRelayNext]_vars

\* what is left unchanged by a step of the run_agent_bridge coroutine, and
\* by a step of its relay tasks and timers
BridgeFrame == UNCHANGED <<settings, inflight, reqs, injector_vars, pure_vars, calls>>

RelayFrame == UNCHANGED <<proxy_vars, injector_vars, pure_vars, calls>>

\* the steps the d2t task takes by itself: an awaited send or sleep ends
D2T_Proceeds == (\E ok \in BOOLEAN : D2T_SendReturns(ok)) \/ D2T_GraceOver

\* the steps the t2d task takes by itself: the loop test, the read's
\* one-second timeout, an awaited send ending
T2D_Proceeds ==
    T2D_Waits \/ T2D_LoopExits \/ T2D_Timeout \/ (\E ok \in BOOLEAN : T2D_SendReturns(ok))

\* the steps of the event loop for the call's timers
BridgeTimersProceed ==
    \/ \E h \in HandleIds : BridgeTimers(TimerFires(h))
    \/ (\E t \in Tasks : BridgeTimers(TaskStarts(t))) /\ Len(cb_calls') <= MaxCalls
    \/ \E t \in Tasks, ok \in BOOLEAN : BridgeTimers(InjectReturns(t, ok))
    \/ (\E t \in Tasks : BridgeTimers(SleepReturns(t))) /\ Len(cb_calls') <= MaxCalls

\* the steps of the run_agent_bridge coroutine after the connect
RunProceeds ==
    \/ SendSettingsReturns \/ SendSettingsRaises \/ Teardown \/ CloseDone
    \/ GreetingReturns \/ NotifyReturns \/ ExtractionsReturn

\* The same call on a fair event loop: every task that can take a step of
\* its own takes it, timeouts and sleeps end, time passes.  What the agent
\* service and the telephony side do (a message, a frame, a close) is not
\* forced to happen.
SpecBridgeLive ==
    /\ InitBridge
    /\ [][BridgeNext]_vars
    /\ WF_vars(D2T_Proceeds /\ RelayFrame)
    /\ WF_vars(T2D_Proceeds /\ RelayFrame)
    /\ WF_vars(BridgeTimersProceed /\ RelayFrame)
    /\ WF_vars(BridgeTick /\ RelayFrame)
    /\ WF_vars(RunProceeds /\ BridgeFrame)

\* one VoiceStatusInjector, driven by gateway events, reset(), stop() and the
\* session's mute flag
InitInjector ==
    /\ injector = NewInjector
    /\ now \in 0..COOLDOWN_SECONDS
    /\ vs_log = NoLog
    /\ calls = NoCalls
    /\ unmute_call = NoUnmute
    /\ registry_call = NoRegistryCall
    /\ media = NoMedia
    /\ active_sessions \in {<<>>, register(<<>>, InjectorKey, "dg_ws")}
    /\ settings = [FILLER_THRESHOLD_MS |-> 1500]
    /\ inflight = <<>>
    /\ reqs = <<>>
    /\ config = TimerConfig(FALSE, 1, MaxMs, 1, MaxMs, "msg")
    /\ timers = NewTimers
    /\ cb_calls = <<>>
    /\ idle_cleared = FALSE
    /\ response_cleared = FALSE
    /\ idle_interrupted = FALSE
    /\ idle_prompt_fired = "untracked"
    /\ scenario = "init"
    /\ bridge = NoBridge
    /\ stop_event = FALSE
    /\ stop_set_at = Nil
    /\ d2t = NewD2T
    /\ t2d = [pc |-> "recv"]
    /\ dg_sent = <<>>
    /\ transcript = <<>>

SpecInjector == InitInjector /\ [][InjectorNext]_vars

\* one question to should_unmute: any registry of at most one session, with or
\* without a bound agent name, and any text
InitUnmute ==
    /\ unmute_call \in [text : Texts, pc : {"asked"}, result : {FALSE}]
    /\ registry_call = NoRegistryCall
    /\ active_sessions \in {<<>>} \cup {register_as(<<>>, UnmuteKey, "dg_ws", n) : n \in AgentNames}
    /\ media = NoMedia
    /\ injector = NewInjector
    /\ now = 0
    /\ vs_log = NoLog
    /\ calls = NoCalls
    /\ settings = [FILLER_THRESHOLD_MS |-> 1500]
    /\ inflight = <<>>
    /\ reqs = <<>>
    /\ config = TimerConfig(FALSE, 1, MaxMs, 1, MaxMs, "msg")
    /\ timers = NewTimers
    /\ cb_calls = <<>>
    /\ idle_cleared = FALSE
    /\ response_cleared = FALSE
    /\ idle_interrupted = FALSE
    /\ idle_prompt_fired = "untracked"
    /\ scenario = "init"
    /\ bridge = NoBridge
    /\ stop_event = FALSE
    /\ stop_set_at = Nil
    /\ d2t = NewD2T
    /\ t2d = [pc |-> "recv"]
    /\ dg_sent = <<>>
    /\ transcript = <<>>

SpecUnmute == InitUnmute /\ [][UnmuteNext]_vars

\* one chunk of audio for one stream, through build, parse and extract
InitMedia ==
    /\ media \in [stream_sid : StreamSids, audio : AudioOf(MaxAudio), raw : {<<>>},
                   event : {PyNone}, out : {PyNone}, pc : {"audio"}]
    /\ unmute_call = NoUnmute
    /\ registry_call = NoRegistryCall
    /\ active_sessions = <<>>
    /\ injector = NewInjector
    /\ now = 0
    /\ vs_log = NoLog
    /\ calls = NoCalls
    /\ settings = [FILLER_THRESHOLD_MS |-> 1500]
    /\ inflight = <<>>
    /\ reqs = <<>>
    /\ config = TimerConfig(FALSE, 1, MaxMs, 1, MaxMs, "msg")
    /\ timers = NewTimers
    /\ cb_calls = <<>>
    /\ idle_cleared = FALSE
    /\ response_cleared = FALSE
    /\ idle_interrupted = FALSE
    /\ idle_prompt_fired = "untracked"
    /\ scenario = "init"
    /\ bridge = NoBridge
    /\ stop_event = FALSE
    /\ stop_set_at = Nil
    /\ d2t = NewD2T
    /\ t2d = [pc |-> "recv"]
    /\ dg_sent = <<>>
    /\ transcript = <<>>

SpecMedia == InitMedia /\ [][MediaNext]_vars

\* concurrent calls, an empty registry
InitCalls ==
    /\ calls = NoCalls
    /\ active_sessions = <<>>
    /\ unmute_call = NoUnmute
    /\ registry_call = NoRegistryCall
    /\ media = NoMedia
    /\ injector = NewInjector
    /\ now = 0
    /\ vs_log = NoLog
    /\ settings = [FILLER_THRESHOLD_MS |-> 1500]
    /\ inflight = <<>>
    /\ reqs = <<>>
    /\ config = TimerConfig(FALSE, 1, MaxMs, 1, MaxMs, "msg")
    /\ timers = NewTimers
    /\ cb_calls = <<>>
    /\ idle_cleared = FALSE
    /\ response_cleared = FALSE
    /\ idle_interrupted = FALSE
    /\ idle_prompt_fired = "untracked"
    /\ scenario = "init"
    /\ bridge = NoBridge
    /\ stop_event = FALSE
    /\ stop_set_at = Nil
    /\ d2t = NewD2T
    /\ t2d = [pc |-> "recv"]
    /\ dg_sent = <<>>
    /\ transcript = <<>>

SpecCalls == InitCalls /\ [][CallsNext]_vars

\* ------------------------------------------------------------------------
\* Claims about SessionTimers
\* ------------------------------------------------------------------------
\* this step invoked callback "call" from a _fire_<kind> task, kind in kinds
Invoked(call, kinds) ==
    /\ Len(cb_calls') = Len(cb_calls) + 1
    /\ cb_calls'[Len(cb_calls')].call = call
    /\ cb_calls'[Len(cb_calls')].kind \in kinds

\* C1: at most one re-engage, one response-exit, one idle-prompt and one
\* idle-exit callback are scheduled and not yet fired or cancelled.
C1_AtMostOnePending ==
    \A k \in TaskKinds : Cardinality(Pending(timers, k)) <= 1

\* C2: once on_agent_started_speaking() has been handled, the idle-prompt
\* message is not injected before on_agent_audio_done() re-arms the idle chain.
C2_NoIdlePromptMidResponse ==
    [][Invoked("inject_message", {"idle_prompt"}) => ~idle_cleared]_vars

\* C3: once on_agent_started_speaking() has been handled, the response chain
\* injects no message and does not end the call until on_user_spoke() re-arms it.
C3_NoResponseChainAfterAgentSpoke ==
    [][(\/ Invoked("inject_message", {"response_reengage", "response_exit"})
        \/ Invoked("end_call", {"response_exit"})) => ~response_cleared]_vars

ResponseScenario ==
    /\ scenario = "user_spoke_only"
    /\ config.response_reengage_ms > 0
    /\ config.response_reengage_ms < config.response_exit_ms
    /\ config.response_reengage_message # ""
    /\ config.response_exit_message # ""

Quiescent ==
    /\ \A h \in HandleIds : timers.loop[h].st # "pending"
    /\ timers.tasks = EmptyBag

IsPrefix(p, q) == Len(p) <= Len(q) /\ \A i \in 1..Len(p) : p[i] = q[i]

ResponseChainCalls ==
    << [call |-> "inject_message", kind |-> "response_reengage", cur |-> FALSE],
       [call |-> "inject_message", kind |-> "response_exit", cur |-> FALSE],
       [call |-> "end_call", kind |-> "response_exit", cur |-> FALSE] >>

\* C8: after on_user_spoke() with 0 < response_reengage_ms < response_exit_ms
\* and no further events, the re-engage message, then the exit message are
\* injected and then end_call is invoked, each exactly once.
C8_ReengageThenExitThenEndCall ==
    ResponseScenario =>
        /\ IsPrefix(cb_calls, ResponseChainCalls)
        /\ Quiescent => cb_calls = ResponseChainCalls

C8_Witness ==
    ResponseScenario /\ Quiescent /\ cb_calls = ResponseChainCalls

ExitKinds == {"response_exit", "idle_exit"}

\* an exit callback has started firing: its task is past the _exiting test
ExitFiring ==
    \E t \in Running(timers) : t.kind \in ExitKinds /\ t.pc \in {"inject", "sleep"}

EndCalls == Cardinality({i \in 1..Len(cb_calls) : cb_calls[i].call = "end_call"})

\* C11: once a response-exit or idle-exit callback starts firing, end_call is
\* invoked, whether the injection of the exit message returns or raises, and
\* it is never invoked a second time.
C11_ExitEndsCallOnce ==
    /\ [](EndCalls <= 1)
    /\ [](\A t \in Running(timers) : t.pc = "sleep" => timers.exiting)
    /\ ExitFiring ~> (EndCalls = 1)

C11_Witness ==
    /\ EndCalls = 1
    /\ timers.exiting
    /\ \E i \in 1..Len(cb_calls) : cb_calls[i].call = "inject_message"

\* this step is the handling of one of the four on_* events
OnEvent ==
    \/ OnUserSpoke
    \/ OnAgentStartedSpeaking
    \/ OnUserStartedSpeaking
    \/ OnAgentAudioDone

\* C12: once the exiting flag is set, every on_* event leaves the timers as they
\* are and schedules nothing, and no step (pause and resume included) clears
\* the flag.
C12_ExitingIsTerminal ==
    [][timers.exiting =>
          /\ timers'.exiting
          /\ OnEvent => /\ timers' = timers
                        /\ \A k \in TaskKinds : Pending(timers', k) \subseteq Pending(timers, k)]_vars

C12_Witness ==
    /\ enabled
    /\ timers.exiting
    /\ ~timers.paused
    /\ scenario = "other"
    /\ \A k \in TaskKinds : Pending(timers, k) = {}

\* C13: from pause() until the next resume(), every on_* event is a no-op, no
\* message is injected and end_call is not invoked, whatever was pending,
\* dispatched or suspended when pause() was called.
C13_PausedIsSilent ==
    [][(timers.paused /\ timers'.paused) =>
          /\ cb_calls' = cb_calls
          /\ OnEvent => timers' = timers]_vars

\* C9: user speech handled while the idle-prompt timer of the current idle
\* period is pending: no idle-prompt or idle-exit message of that period is
\* injected.
C9_UserSpeechCancelsIdleChain ==
    [][(/\ Invoked("inject_message", {"idle_prompt", "idle_exit"})
        /\ cb_calls'[Len(cb_calls')].cur) => ~idle_interrupted]_vars

C9_Witness ==
    /\ idle_interrupted
    /\ Pending(timers, "idle_prompt") = {}
    /\ Pending(timers, "idle_exit") = {}
    /\ timers.tasks = EmptyBag
    /\ \A i \in 1..Len(cb_calls) : ~cb_calls[i].cur

C27_NothingAfterClearAll ==
    [][scenario = "cleared" => cb_calls' = cb_calls]_vars

\* C26: when the caller stays silent after the agent has finished speaking,
\* the idle prompt is injected and then the idle exit fires and end_call is
\* invoked, also when the agent service reports AgentStartedSpeaking and
\* AgentAudioDone for the injected prompt.
C26_SilentCallerIsHungUp ==
    (scenario = "caller_silent") ~>
        (\E i \in 1..Len(cb_calls) :
            cb_calls[i].call = "end_call" /\ cb_calls[i].kind = "idle_exit")

\* ------------------------------------------------------------------------
\* Claims about the request supersession tracker
\* ------------------------------------------------------------------------
\* this step is the arrival of request r for session_key k with a live connection
Registers(r, k) ==
    /\ Len(reqs') = Len(reqs) + 1
    /\ r = Len(reqs')
    /\ reqs'[r].session_key = k
    /\ reqs'[r].dg_ws # Nil

\* C4: a request for a key with a live connection sets the old entry's
\* cancellation signal, takes the old sequence number plus one and replaces
\* the entry, in one step; with no entry it takes number 1 and cancels nothing.
C4_RegisterSupersedes ==
    [][\A k \in Keys, r \in ReqIds : Registers(r, k) =>
          IF k \in DOMAIN inflight
          THEN /\ reqs'[inflight[k].cancel].cancel_event = "set"
               /\ reqs'[r].my_seq = inflight[k].seq + 1
               /\ inflight'[k] = InflightEntry(inflight[k].seq + 1, r)
          ELSE /\ reqs'[r].my_seq = 1
               /\ inflight'[k] = InflightEntry(1, r)
               /\ \A i \in 1..Len(reqs) : reqs'[i].cancel_event = reqs[i].cancel_event]_vars

C4_Witness ==
    \E k \in DOMAIN inflight :
        /\ inflight[k] = InflightEntry(2, 2)
        /\ reqs[1].cancel_event = "set"
        /\ reqs[2].my_seq = 2

\* C5: the entry of a key is removed only by the cleanup of the request that
\* registered it.
C5_CleanupOnlyOwnEntry ==
    [][\A k \in DOMAIN inflight : k \notin DOMAIN inflight' =>
          /\ reqs[inflight[k].cancel].pc # "done"
          /\ reqs'[inflight[k].cancel].pc = "done"]_vars

\* C6: on one key every newly registered request gets a sequence number
\* greater than every number assigned earlier.
C6_SeqStrictlyIncreasing ==
    \A i, j \in 1..Len(reqs) :
        (/\ i < j
         /\ reqs[i].session_key = reqs[j].session_key
         /\ reqs[i].my_seq # None
         /\ reqs[j].my_seq # None) => reqs[i].my_seq < reqs[j].my_seq

C24_MutedRequestIsNoOp ==
    [][/\ \A k \in Keys, m \in UserMessages \cup {Nil}, sf \in BOOLEAN :
            (/\ Len(reqs') > Len(reqs)
             /\ is_muted(active_sessions, k)
             /\ ~(m # Nil /\ should_unmute(active_sessions, k, UserText(m)))
             /\ Arrive(k, m, sf)) =>
                LET q == reqs'[Len(reqs')] IN
                /\ Len(reqs') = Len(reqs) + 1
                /\ SubSeq(reqs', 1, Len(reqs)) = reqs
                /\ q.pc = "done" /\ q.outcome = "muted_noop"
                /\ q.filler_task = "none"
                /\ q.my_seq = None /\ q.cancel_event = "none"
                /\ inflight' = inflight
                /\ injector' = injector
                /\ active_sessions' = active_sessions
                /\ is_muted(active_sessions', k)
       /\ \A r \in 1..Len(reqs) :
            reqs[r].outcome = "muted_noop" => reqs'[r] = reqs[r]]_vars

C24_Witness ==
    \E r \in 1..Len(reqs), o \in 1..Len(reqs) :
        /\ reqs[r].outcome = "muted_noop"
        /\ o < r
        /\ reqs[o].pc = "stream" /\ reqs[o].cancel_event = "clear"
        /\ reqs[o].session_key = reqs[r].session_key
        /\ reqs[r].session_key \in DOMAIN inflight
        /\ is_muted(active_sessions, reqs[r].session_key)
        /\ active_sessions[reqs[r].session_key].injector # Nil

\* this step sends the filler phrase of request r on the agent connection
FillerSent(r) ==
    reqs[r].filler_task # "injected" /\ reqs'[r].filler_task = "injected"

\* C37: the filler of a request is sent at most once, by the filler task
\* armed at the request's arrival, which is armed only with a connection
\* found for the session key and a positive threshold; it is sent only
\* before the request has seen a chunk with real content and before its
\* stream has ended, and a filler task that is over is never armed again.
C37_OneFillerBeforeContent ==
    [][/\ \A r \in 1..Len(reqs) :
            /\ FillerSent(r) =>
                  /\ reqs[r].filler_task = "armed"
                  /\ reqs[r].session_key # Nil /\ reqs[r].dg_ws # Nil
                  /\ settings.FILLER_THRESHOLD_MS > 0
                  /\ ~reqs[r].content_started
                  /\ reqs[r].outcome \notin {"ended", "superseded", "muted_noop"}
            /\ reqs[r].filler_task # "armed" => reqs'[r].filler_task # "armed"
       /\ Len(reqs') > Len(reqs) =>
            LET q == reqs'[Len(reqs')] IN
            /\ q.filler_task \in {"none", "armed"}
            /\ q.filler_task = "armed" =>
                  (q.dg_ws # Nil /\ settings.FILLER_THRESHOLD_MS > 0)]_vars

C37_Witness ==
    \E r \in 1..Len(reqs), o \in 1..Len(reqs) :
        /\ reqs[r].filler_task = "injected"
        /\ reqs[r].pc = "stream" /\ reqs[r].content_started
        /\ reqs[o].filler_task = "ended"
        /\ reqs[o].pc = "stream" /\ reqs[o].content_started

\* C38: after register(k, ws) get_ws(k) is ws and the session of k is a new
\* one: not muted, without timers and without injector; after unregister(k)
\* get_ws(k) is None; the connection get_ws returns for a key changes in no
\* other way, so it is that of the last register not followed by an
\* unregister.  unregister, set_muted, set_timers and set_injector on an
\* unregistered key leave the registry as it was, the set_ functions never
\* add or remove a key, and an unregistered key is not muted and has no
\* connection.
C38_RegistryOperations ==
    [][/\ \A k \in RegistryKeys, ws \in RegistryConns, n \in AgentNames :
            Register(k, ws, n) =>
               /\ get_ws(active_sessions', k) = ws
               /\ ~is_muted(active_sessions', k)
               /\ active_sessions'[k].timers = Nil
               /\ active_sessions'[k].injector = Nil
               /\ active_sessions'[k].agent_name = n
       /\ \A k \in RegistryKeys :
            /\ Unregister(k) => get_ws(active_sessions', k) = Nil
            /\ get_ws(active_sessions', k) # get_ws(active_sessions, k) =>
                  /\ registry_call'.key = k
                  /\ registry_call'.op \in {"register", "unregister"}
            /\ (k \in DOMAIN active_sessions') # (k \in DOMAIN active_sessions) =>
                  /\ registry_call'.key = k
                  /\ registry_call'.op \in {"register", "unregister"}
            /\ (k \notin DOMAIN active_sessions /\ registry_call'.key = k
                  /\ registry_call'.op # "register") => active_sessions' = active_sessions
            /\ k \notin DOMAIN active_sessions =>
                  /\ ~is_muted(active_sessions, k)
                  /\ get_ws(active_sessions, k) = Nil]_vars

C38_Witness ==
    /\ registry_call.op = "register"
    /\ registry_call.registered
    /\ registry_call.before.muted
    /\ registry_call.before.timers # Nil
    /\ registry_call.before.injector # Nil
    /\ registry_call.before.ws = "dg_ws"
    /\ get_ws(active_sessions, registry_call.key) = "other_dg_ws"
    /\ ~is_muted(active_sessions, registry_call.key)
    /\ \E k \in RegistryKeys : k \notin DOMAIN active_sessions

\* request r registered an in-flight entry for its session key
Registered(r) == reqs[r].my_seq # None

\* C39: of two requests registered for one session key, the older one, as
\* long as it has not finished, has its cancellation signal set; so among the
\* unfinished registered requests of a key only the newest can have its
\* signal unset.
C39_OnlyNewestUncancelled ==
    \A i, j \in 1..Len(reqs) :
        (/\ i < j
         /\ reqs[i].session_key = reqs[j].session_key
         /\ Registered(i) /\ Registered(j)
         /\ reqs[i].pc # "done") => reqs[i].cancel_event = "set"

\* C40: when every request that registered for a session key has terminated,
\* the in-flight map has no entry for the key and none of those requests has
\* a filler task still armed.
C40_NothingLeftAfterRequests ==
    \A k \in Keys :
        (\A r \in 1..Len(reqs) :
            (reqs[r].session_key = k /\ Registered(r)) => reqs[r].pc = "done") =>
                /\ k \notin DOMAIN inflight
                /\ \A r \in 1..Len(reqs) :
                      (reqs[r].session_key = k /\ Registered(r)) =>
                          reqs[r].filler_task # "armed"

\* C35: a request for a muted session whose last user message satisfies
\* should_unmute clears the session's mute flag, resumes the session's timers
\* when the session has some (and touches no timers otherwise), resets the
\* session's injector when it has one, registers the in-flight entry of the
\* key with the next sequence number, setting the cancellation signal of the
\* request that held the entry, and waits for the gateway to answer.
C35_UnmuteThenProxy ==
    [][\A k \in Keys, m \in UserMessages, sf \in BOOLEAN :
          (/\ Len(reqs') > Len(reqs)
           /\ is_muted(active_sessions, k)
           /\ should_unmute(active_sessions, k, UserText(m))
           /\ Arrive(k, m, sf)) =>
              LET r == Len(reqs')
                  session == active_sessions[k]
              IN /\ r = Len(reqs) + 1
                 /\ active_sessions' = set_muted(active_sessions, k, FALSE)
                 /\ ~is_muted(active_sessions', k)
                 /\ IF session.timers # Nil
                    THEN ~timers'.paused /\ cb_calls' = cb_calls
                    ELSE UNCHANGED timer_vars
                 /\ injector' = IF session.injector # Nil
                                THEN reset(injector, now) ELSE injector
                 /\ reqs'[r].pc = "send"
                 /\ reqs'[r].cancel_event = "clear"
                 /\ reqs'[r].filler_task = "none" <=>
                        (settings.FILLER_THRESHOLD_MS = 0 \/ sf)
                 /\ IF k \in DOMAIN inflight
                    THEN /\ inflight'[k] = InflightEntry(inflight[k].seq + 1, r)
                         /\ reqs'[inflight[k].cancel].cancel_event = "set"
                         /\ reqs'[r].my_seq = inflight[k].seq + 1
                    ELSE /\ inflight'[k] = InflightEntry(1, r)
                         /\ reqs'[r].my_seq = 1]_vars

C35_Witness ==
    \E r \in 1..Len(reqs), o \in 1..Len(reqs) :
        /\ o < r
        /\ reqs[r].muted /\ reqs[r].pc = "send" /\ reqs[r].my_seq = 2
        /\ reqs[o].pc = "stream" /\ reqs[o].cancel_event = "set"
        /\ reqs[r].session_key \in DOMAIN inflight \cap DOMAIN active_sessions
        /\ inflight[reqs[r].session_key] = InflightEntry(2, r)
        /\ ~is_muted(active_sessions, reqs[r].session_key)
        /\ active_sessions[reqs[r].session_key].timers # Nil
        /\ active_sessions[reqs[r].session_key].injector # Nil
        /\ ~timers.paused /\ scenario = "other"
        /\ injector.request_started_at = now /\ ~injector.content_streaming

\* ------------------------------------------------------------------------
\* Claims about the audio relay
\* ------------------------------------------------------------------------
\* what the d2t task has sent on the agent connection since it received the
\* last end_call request
SentSinceRequest(sent, task) ==
    SelectSeq(SubSeq(sent, task.mark + 1, Len(sent)), LAMBDA e : e.by = "d2t")

EndCallAck(task) == FunctionCallResponse(task.msg.function_call_id)

EndCallFarewell(task) == InjectAgentMessage(farewell_of(task.msg), "d2t")

\* C10: for an end_call FunctionCallRequest with farewell F the d2t task sends
\* one FunctionCallResponse carrying the request's function_call_id and
\* {"ok": true}, then one InjectAgentMessage carrying F, and leaves the
\* cancellation signal alone; the next AgentAudioDone starts the grace sleep
\* without setting the signal, and only when the sleep is over does the task
\* set the signal and stop.
C10_EndCallFarewellThenGrace ==
    [][/\ (d2t.pc = "recv" /\ d2t'.pc = "send_ack") =>
            /\ SentSinceRequest(dg_sent', d2t') = <<EndCallAck(d2t')>>
            /\ stop_event' = stop_event
       /\ (d2t.pc = "send_ack" /\ d2t'.pc = "send_farewell") =>
            /\ SentSinceRequest(dg_sent', d2t') = <<EndCallAck(d2t), EndCallFarewell(d2t)>>
            /\ stop_event' = stop_event
       /\ (d2t.pc = "send_farewell" /\ d2t'.pc = "recv") =>
            /\ d2t'.end_call_farewell_pending
            /\ SentSinceRequest(dg_sent', d2t') = <<EndCallAck(d2t), EndCallFarewell(d2t)>>
            /\ stop_event' = stop_event
       /\ (d2t.end_call_farewell_pending /\ ~d2t'.end_call_farewell_pending) =>
            /\ d2t'.pc = "grace"
            /\ d2t'.rem = GRACE_SLEEP_S
            /\ SentSinceRequest(dg_sent', d2t') = <<EndCallAck(d2t), EndCallFarewell(d2t)>>
            /\ stop_event' = stop_event
       /\ (d2t.pc = "grace" /\ d2t'.pc # "grace") =>
            /\ d2t.rem = 0
            /\ stop_event'
            /\ d2t'.pc = "done"
            /\ SentSinceRequest(dg_sent', d2t') = <<EndCallAck(d2t), EndCallFarewell(d2t)>>
       /\ (d2t.pc \in {"send_ack", "send_farewell", "grace"} /\ stop_set_at' # stop_set_at) =>
            \/ stop_set_at' \in {"t2d", "timers"}
            \/ stop_set_at' = "grace" /\ d2t.pc = "grace" /\ d2t.rem = 0]_vars

C10_Witness ==
    /\ d2t.pc = "done"
    /\ stop_set_at = "grace"
    /\ d2t.msg.farewell = "Bye now"
    /\ SentSinceRequest(dg_sent, d2t) = <<EndCallAck(d2t), EndCallFarewell(d2t)>>

\* ------------------------------------------------------------------------
\* Claims about run_agent_bridge
\* ------------------------------------------------------------------------
\* the run ended because connect() raised
ConnectFailed(b) == b.pc \in {"returned", "raised"} /\ b.session_key = Nil

\* C21: when opening the agent connection fails, run_agent_bridge returns at
\* once: the step that leaves the connect ends the run with a plain return,
\* with no Settings message sent, no session registered, no timers and no
\* relay tasks created, the connection never closed and no post-call
\* collaborator invoked; the registry is unchanged, and nothing happens after
\* the return (no retry).
C21_ConnectFailureReturnsAtOnce ==
    [][/\ (bridge.pc = "connecting" /\ bridge'.pc # "connecting"
             /\ bridge'.session_key = Nil) =>
            /\ bridge'.pc = "returned"
            /\ bridge' = [bridge EXCEPT !.pc = "returned"]
            /\ dg_sent' = <<>>
            /\ active_sessions' = active_sessions
            /\ bridge'.timers = Nil /\ timers' = timers
            /\ d2t' = NoD2T /\ t2d' = NoT2D
            /\ bridge'.post = <<>> /\ ~bridge'.closed
       /\ ConnectFailed(bridge) =>
            UNCHANGED <<bridge_vars, timer_vars, active_sessions>>]_vars

C21_Witness ==
    /\ ConnectFailed(bridge)
    /\ ~bridge.prompt_override
    /\ bridge.SESSION_TIMER_ENABLED

\* the run has ended
Ended(b) == b.pc \in {"returned", "raised"}

\* the teardown of the finally block has been performed
TornDown ==
    /\ bridge.timers # Nil => timers.exiting
    /\ BridgeKey \notin DOMAIN active_sessions
    /\ bridge.closed

\* C22: a run whose agent connection was opened ends, whatever failed after
\* that (the Settings send, either socket, either relay task), with its
\* teardown performed (timers cleared, session unregistered, agent
\* connection closed) and by returning to its caller, never by raising.
C22_TeardownThenReturn ==
    (Ended(bridge) /\ ~ConnectFailed(bridge)) =>
        /\ TornDown
        /\ bridge.pc = "returned"

\* how many times a collaborator was invoked
TimesInvoked(b, name) == Cardinality({i \in 1..Len(b.post) : b.post[i] = name})

\* C25: a post-call collaborator runs only in a call without a prompt
\* override and only once the timers are cleared, the session is
\* unregistered and the agent connection is closed; a call without a prompt
\* override whose connection was opened ends with greeting generation
\* invoked exactly once; the extractions run only for a non-empty
\* transcript with POST_CALL_EXTRACTION on.
C25_PostCallAfterTeardown ==
    /\ bridge.post # <<>> => (~bridge.prompt_override /\ TornDown)
    /\ TimesInvoked(bridge, "generate_next_greeting") <= 1
    /\ (Ended(bridge) /\ ~ConnectFailed(bridge) /\ ~bridge.prompt_override) =>
            TimesInvoked(bridge, "generate_next_greeting") = 1
    /\ \A i \in 1..Len(Extractions) :
            TimesInvoked(bridge, Extractions[i]) > 0 =>
                (transcript # <<>> /\ bridge.POST_CALL_EXTRACTION)

\* the Settings message has been sent, before any other message
SettingsSentFirst == dg_sent # <<>> /\ Head(dg_sent) = SettingsMsg

\* C29: the Settings message is sent at most once and is the first message on
\* the agent connection; while the session is registered, while a relay task
\* exists (so whenever telephony audio is forwarded) and from the start of the
\* relay to the end of the run, it has been sent.
C29_SettingsFirst ==
    /\ \A i \in 1..Len(dg_sent) : (dg_sent[i].type = "Settings") <=> (i = 1)
    /\ get_ws(active_sessions, BridgeKey) # Nil => SettingsSentFirst
    /\ (t2d.pc # "none" \/ d2t.pc # "none") => SettingsSentFirst
    /\ bridge.bound => SettingsSentFirst

C29_Witness ==
    /\ get_ws(active_sessions, BridgeKey) = "dg_ws"
    /\ t2d.pc = "send_audio"
    /\ Len(dg_sent) >= 2
    /\ dg_sent[2].by = "timers"

\* C30: a step of the agent-to-telephony task taken from its wait for the
\* next message while the cancellation signal is set ends the task: the
\* message is not counted or dispatched, no media or clear event is sent to
\* the telephony connection, no transcript entry is added, the timers are not
\* notified and nothing is sent to the agent.  The telephony-to-agent task,
\* once it has returned (on a stop event, a disconnect or anything else),
\* takes no further step, so it forwards no further audio.
C30_NothingAfterCancellation ==
    [][/\ (stop_event /\ d2t.pc = "recv" /\ d2t' # d2t) =>
            /\ d2t'.pc = "done"
            /\ d2t'.n = d2t.n
            /\ UNCHANGED <<transcript, timer_vars, dg_sent>>
       /\ t2d.pc = "done" => t2d' = t2d]_vars

C30_Witness ==
    /\ stop_event
    /\ stop_set_at = "t2d"
    /\ t2d.pc = "done"
    /\ d2t.pc = "done"
    /\ d2t.dropped
    /\ d2t.n > 0

\* C31: once the agent connection has closed during the call, both relay
\* tasks terminate and the run reaches its teardown.
C31_AgentCloseEndsCall ==
    d2t.closed ~> (d2t.pc = "done" /\ t2d.pc = "done" /\ bridge.pc # "running")

\* C32: the AgentAudioDone that starts the hangup ends the farewell's audio
\* and not an utterance that was in progress when end_call was requested; a
\* message handled with no farewell pending does not set the cancellation
\* signal.
C32_HangupAfterFarewellSpoken ==
    [][/\ (d2t.end_call_farewell_pending /\ d2t'.pc = "grace" /\ d2t.pc = "recv")
            => d2t.utterance = "farewell"
       /\ (d2t.pc = "recv" /\ d2t'.n = d2t.n + 1 /\ ~d2t.end_call_farewell_pending)
            => stop_event' = stop_event]_vars

\* the transcript after the relay has handled message m
TranscriptAfter(m) ==
    IF m.type = "ConversationText" /\ m.content # ""
    THEN Append(transcript, [speaker |-> IF m.role = "user" THEN "user" ELSE "bot",
                             text |-> m.content])
    ELSE transcript

\* C33: every message the relay handles extends the transcript by one entry
\* at its end when it is a ConversationText with non-empty content, tagged
\* "user" for role user and "bot" for any other role, and leaves it as it is
\* otherwise; no other step of the call (a send, a timer injection, a
\* telephony frame, the teardown, the post-call work) changes the transcript.
C33_TranscriptIsConversationText ==
    [][IF d2t.pc = "recv" /\ d2t'.n = d2t.n + 1
       THEN /\ \E m \in AgentMsgs : D2T_Receive(m)
            /\ \A m \in AgentMsgs : D2T_Receive(m) => transcript' = TranscriptAfter(m)
       ELSE transcript' = transcript]_vars

C33_Witness ==
    /\ transcript = <<[speaker |-> "bot", text |-> "text"],
                      [speaker |-> "user", text |-> "text"]>>
    /\ d2t.n > Len(transcript)
    /\ \E i \in 1..Len(dg_sent) : dg_sent[i].type = "InjectAgentMessage"
    /\ bridge.pc = "extracting"

\* the fields of the d2t task that are not histories of its messages
Locals(task) == [task EXCEPT !.n = 0, !.skipped = "untracked"]

\* C34: handling an agent text message that is not valid JSON, or whose type
\* is unrecognised, or that requests a function other than end_call, sends
\* nothing to the agent or to the telephony connection and leaves the
\* transcript, the timers, the pending-hangup flag, the cancellation signal,
\* the other task and the registry as they were; the task waits for its next
\* message.  A telephony frame that is not valid JSON leaves the
\* telephony-to-agent task at its loop test with nothing else changed.
C34_UnusableMessagesChangeNothing ==
    [][/\ (d2t.pc = "recv" /\ d2t'.n = d2t.n + 1) =>
            \A m \in AgentMsgs : (NotForTheRelay(m) /\ D2T_Receive(m)) =>
                /\ d2t'.pc = "recv"
                /\ Locals(d2t') = Locals(d2t)
                /\ UNCHANGED <<dg_sent, transcript, timer_vars, stop_event, stop_set_at,
                               t2d, bridge, active_sessions>>
       /\ (t2d.pc = "wait" /\ T2D_Frame("unparsed")) =>
            /\ t2d'.pc = "recv"
            /\ UNCHANGED <<dg_sent, transcript, timer_vars, stop_event, stop_set_at,
                           d2t, bridge, active_sessions>>]_vars

C34_Witness ==
    /\ d2t.skipped = "yes"
    /\ d2t.pc = "recv"
    /\ d2t.end_call_farewell_pending
    /\ ~stop_event
    /\ bridge.timers # Nil
    /\ transcript # <<>>

\* C36: while the mute flag of a call's registered session is set, the
\* call's timer machine is paused, and it injects no message and does not
\* hang up the call.
C36_MutedCallIsPaused ==
    [][\A k \in DOMAIN active_sessions :
          (bridge.timers # Nil /\ bridge.session_key = k /\ active_sessions[k].muted) =>
              /\ timers.paused
              /\ cb_calls' = cb_calls]_vars

\* C23: once the cancellation signal is set, both relay tasks eventually
\* terminate and the run reaches its teardown, whether or not the agent
\* service or the telephony side sends anything more.
C23_StopUnwindsBothTasks ==
    stop_event ~> (d2t.pc = "done" /\ t2d.pc = "done" /\ bridge.pc # "running")

\* ------------------------------------------------------------------------
\* Claims about the tool-status injector
\* ------------------------------------------------------------------------
\* this step sent a phrase
Sends == vs_log'.seq # vs_log.seq

\* this step is the handling of a tool-start event for tool n
ToolStarts(n) ==
    /\ ~injector.stopped
    /\ ~injector.content_streaming
    /\ VsOnEvent([kind |-> "tool_start", name |-> n])

\* C14: a tool-start that arrives while an earlier injection is pending cancels
\* it and leaves only the latest tool's phrase scheduled; at most one injection
\* is pending at any time, and a handle that comes due sends its own phrase
\* and is gone.
C14_LatestToolWins ==
    [][/\ Cardinality(injector'.loop) <= 1
       /\ \A h \in injector'.loop : injector'.pending_inject = h.id
       /\ \A n \in ToolNames :
             (ToolStarts(n) /\ injector.loop # {}) =>
                /\ \E h \in injector'.loop :
                      /\ injector'.loop = {h}
                      /\ h.phrase = get_tool_phrase(n)
                      /\ h.replaced
                /\ injector.loop \cap injector'.loop = {}
                /\ vs_log' = vs_log
       /\ Sends =>
             /\ \E h \in injector.loop :
                   /\ injector.loop = {h}
                   /\ vs_log'.phrase = h.phrase
                   /\ h.when <= now
             /\ injector'.loop = {}]_vars

C14_Witness ==
    /\ vs_log.at >= 0
    /\ vs_log.replaced
    /\ vs_log.phrase = get_tool_phrase("read_file")
    /\ injector.loop = {}

\* C15: no phrase is sent earlier than INITIAL_HOLDOFF_SECONDS after the latest
\* reset(), any two phrases sent are at least COOLDOWN_SECONDS apart, and a
\* handle is never scheduled for a time before the scheduling.
C15_HoldoffAndCooldown ==
    [][/\ vs_log.prev_at >= 0 => vs_log.at - vs_log.prev_at >= COOLDOWN_SECONDS
       /\ Sends =>
             /\ now >= injector.request_started_at + INITIAL_HOLDOFF_SECONDS
             /\ vs_log.at >= 0 => now - vs_log.at >= COOLDOWN_SECONDS
             /\ vs_log'.at = now
       /\ \A h \in injector'.loop \ injector.loop :
             /\ h.when >= now
             /\ h.when - now = Max(Max(0, injector.request_started_at + INITIAL_HOLDOFF_SECONDS - now),
                                   Max(0, injector.last_inject_time + COOLDOWN_SECONDS - now))]_vars

C15_Witness ==
    /\ vs_log.prev_at >= 0
    /\ vs_log.at - vs_log.prev_at = COOLDOWN_SECONDS
    /\ vs_log.at = injector.request_started_at + INITIAL_HOLDOFF_SECONDS

\* C16: a phrase is sent only while the injector is not stopped, no chat delta
\* has arrived since the last reset() and the session is not muted; a chat
\* delta or stop() leaves nothing pending, nothing is scheduled while either
\* holds, and stop() is never undone.
C16_SendsOnlyWhenLive ==
    [][/\ Sends =>
             /\ ~injector.stopped
             /\ ~injector.content_streaming
             /\ ~is_muted(active_sessions, InjectorKey)
       /\ (injector'.stopped \/ injector'.content_streaming) => injector'.loop = {}
       /\ injector.stopped => injector'.stopped]_vars

C16_Witness ==
    /\ vs_log.skipped_at >= 0
    /\ vs_log.at > vs_log.skipped_at
    /\ injector.stopped
    /\ ~is_muted(active_sessions, InjectorKey)

\* ------------------------------------------------------------------------
\* Claims about should_unmute
\* ------------------------------------------------------------------------
\* two characters are the same letter, whatever their case
SameLetter(a, b) ==
    \/ a = b
    \/ \E i \in DOMAIN UpperCase : {a, b} = {UpperCase[i], LowerCase[i]}

\* word occurs in text, in any case, with no word character right before or
\* right after it
WholeWordIn(word, text) ==
    \E p \in 0..(Len(text) - Len(word)) :
        /\ \A j \in 1..Len(word) : SameLetter(text[p + j], word[j])
        /\ p = 0 \/ ~IsWordChar(text[p])
        /\ p + Len(word) = Len(text) \/ ~IsWordChar(text[p + Len(word) + 1])

\* phrase occurs in text, in any case
PhraseIn(phrase, text) ==
    \E p \in 0..(Len(text) - Len(phrase)) :
        \A j \in 1..Len(phrase) : SameLetter(text[p + j], phrase[j])

UnmutePhrases ==
    { <<"u", "n", "m", "u", "t", "e">>,
      <<"y", "o", "u", " ", "c", "a", "n", " ", "t", "a", "l", "k">>,
      <<"s", "t", "a", "r", "t", " ", "t", "a", "l", "k", "i", "n", "g">>,
      <<"i", " ", "n", "e", "e", "d", " ", "y", "o", "u">> }

HasUnmutePhrase(text) == \E ph \in UnmutePhrases : PhraseIn(ph, text)

BoundName ==
    IF UnmuteKey \in DOMAIN active_sessions
    THEN active_sessions[UnmuteKey].agent_name
    ELSE NoName

\* C17: should_unmute answers true exactly when the key is registered and the
\* text holds the bound agent name as a whole word or one of the four unmute
\* phrases, in any case; "Hey Wren" matches the name Wren, "Lawrence" does not.
C17_ShouldUnmute ==
    unmute_call.pc = "answered" =>
        /\ unmute_call.result =
              (/\ UnmuteKey \in DOMAIN active_sessions
               /\ \/ BoundName # NoName /\ WholeWordIn(BoundName, unmute_call.text)
                  \/ HasUnmutePhrase(unmute_call.text))
        /\ UnmuteKey \notin DOMAIN active_sessions => ~unmute_call.result
        /\ (BoundName = NoName /\ ~HasUnmutePhrase(unmute_call.text)) => ~unmute_call.result
        /\ (BoundName = <<"W", "r", "e", "n">> /\ unmute_call.text = <<"H", "e", "y", " ", "W", "r", "e", "n">>) => unmute_call.result
        /\ (BoundName = <<"W", "r", "e", "n">> /\ unmute_call.text = <<"L", "a", "w", "r", "e", "n", "c", "e">>) => ~unmute_call.result

C17_Witness ==
    /\ unmute_call.pc = "answered"
    /\ BoundName = <<"W", "r", "e", "n">>
    /\ unmute_call.text = <<"L", "a", "w", "r", "e", "n", "c", "e">>
    /\ ~unmute_call.result

\* ------------------------------------------------------------------------
\* Claims about the Twilio media helpers
\* ------------------------------------------------------------------------
\* C18: for every stream id and every byte string, the empty one included,
\* extract_audio_from_media_event(parse_twilio_event(build_media_event(s, b)))
\* returns b.
C18_MediaRoundTrip ==
    media.pc = "done" => media.out = PyBytes(media.audio)

\* the round trip of every byte string that is not empty returns it, and the
\* parsed event carries the stream id it was built with
C18_NonEmptyRoundTrip ==
    /\ (media.pc = "done" /\ media.audio # <<>>) => media.out = PyBytes(media.audio)
    /\ media.pc \in {"parsed", "done"} =>
          /\ media.event.t = "obj"
          /\ media.event.v[K_streamSid] = JsonStr(media.stream_sid)
          /\ media.event.v[K_event] = JsonStr(K_media)

\* ------------------------------------------------------------------------
\* Claims about the session of a call
\* ------------------------------------------------------------------------
RelaysRunning(call) == "running" \in {call.t2d, call.d2t}

\* C19: a run that opened the agent connection registers its key at most
\* once, unregisters it before it returns whatever ended the run, and
\* unregisters only when neither relay task is still running.
C19_RegisterOnceUnregisterLast ==
    [][\A c \in CallNos :
          /\ calls'[c].n_register <= 1
          /\ calls'[c].n_unregister > calls[c].n_unregister =>
                /\ ~RelaysRunning(calls[c])
                /\ calls[c].session_key \notin DOMAIN active_sessions'
          /\ (calls'[c].pc = "returned" /\ calls'[c].dg_ws # Nil) =>
                /\ calls'[c].n_unregister = 1
                /\ ~RelaysRunning(calls'[c])]_vars

C19_Witness ==
    \E c \in CallNos :
        /\ calls[c].pc = "returned"
        /\ calls[c].n_register = 1
        /\ calls[c].n_unregister = 1
        /\ calls[c].t2d = "exception"
        /\ calls[c].d2t = "returned"

====
